---- MODULE Spec2Model ----
(***************************************************************************)
(* Multimodal RAG system: the ingestion pipeline (utils/rag.py), the       *)
(* upload page that calls it (app/pages/app.py), the batch embedder        *)
(* (utils/embeddings.py) and the chat responder (app/pages/chat.py).       *)
(*                                                                         *)
(* Spec         : one session; upload page / process_docs stage by stage,  *)
(*                and chat turns.                                          *)
(* SpecEmbed    : one embed_documents call on a worker pool.               *)
(* SpecRetrieve : one retrieve_context call on an index.                   *)
(* SpecGenerate : one generate_response call.                              *)
(* SpecPool     : the pool tasks and requests of one ingestion call.       *)
(* SpecConfig   : embed calls under a changing RAGConfig.MAX_RETRIES.      *)
(* SpecImages   : one get_images_desc_batch call.                          *)
(* SpecSplit    : one get_splits call, its batches completing in any order.*)
(* SpecFuse     : one retrieve_enhanced_context call on a chatbot with an  *)
(*                index.                                                   *)
(* SpecPages    : logins and page runs of one browser session, and the     *)
(*                session id each run gives to process_docs.               *)
(* SpecSessions : process_docs and chat calls of two sessions, interleaved.*)
(* SpecHistory  : successive chat calls on one RAGChatbot instance.        *)
(* SpecQuery    : enhance_query on a bounded set of questions.             *)
(* SpecOtp      : AuthManager: OTPs, registration and password reset.      *)
(* SpecLogin    : AuthManager: login and sessions, with the database lock. *)
(***************************************************************************)
EXTENDS Integers, Sequences, FiniteSets, TLC

(***************************************************************************)
(* Bounds of the model                                                     *)
(***************************************************************************)
MaxUpload == 2
MaxCalls == 2
MaxTurns == 1
ManyPages == 11
MaxTexts == 4
MaxBatch == 2
MaxWorkers == 2
MaxChunks == 4
MaxPoolFiles == 2
MaxRetriesCfg == 3
MaxImages == 3
MaxDocs == 12
MaxSplitWorkers == 4
MaxFuseK == 3
MaxPageRuns == 4
MaxLogins == 2
MaxSessionCalls == 1
MaxChatCalls == 3
MaxQueryLen == 4
MaxOtps == 2
MaxNow == 30
MaxTokens == 3
MaxResets == 1

(***************************************************************************)
(* Program constants                                                       *)
(***************************************************************************)
MAX_RETRIES == 3
SequentialSplitLimit == 10
DefaultCpuCount == 4
SplitWorkersCap == 4
SplitDocsPerWorker == 5
MixedWorkersCap == 16
MixedWorkersExtra == 2
NoIndex == 0
ScoreThreshold == 15
FallbackK == 3
REQUEST_TIMEOUT == 30
NoTimeout == 0
ImagePoolCap == 4
ZeroVectorDim == 1024
OtpMinutes == 10
ResetOtpMinutes == 15
ResetWindowMinutes == 30
MaxOtpAttempts == 3
SessionMinutes == 10080

(***************************************************************************)
(* Helpers                                                                 *)
(***************************************************************************)
Range(s) == {s[i] : i \in DOMAIN s}

Min(a, b) == IF a <= b THEN a ELSE b

Max(a, b) == IF a >= b THEN a ELSE b

Perms(n) == {p \in [1..n -> 1..n] : \A i, j \in 1..n : p[i] = p[j] => i = j}

Reorder(s, p) == [i \in 1..Len(s) |-> s[p[i]]]

RECURSIVE Flatten(_)
Flatten(ss) == IF ss = <<>> THEN <<>> ELSE Head(ss) \o Flatten(Tail(ss))

(***************************************************************************)
(* File names: a stem and an extension.  name.endswith('.pdf') is          *)
(* ext = "pdf"; str.lower() acts on the extension.                         *)
(***************************************************************************)
FileNames ==
    { [stem |-> "a", ext |-> "pdf"],
      [stem |-> "b", ext |-> "PDF"],
      [stem |-> "c", ext |-> "png"],
      [stem |-> "d", ext |-> "txt"] }

UploadLists == UNION {[1..n -> FileNames] : n \in 0..MaxUpload}

Lower(e) ==
    CASE e = "PDF" -> "pdf"
      [] e = "PNG" -> "png"
      [] e = "TXT" -> "txt"
      [] OTHER -> e

ALLOWED_EXTENSIONS ==
    {"pdf", "docx", "png", "jpg", "jpeg", "csv", "json", "py", "ipynb"}

validate_file_type(uploaded_file) == Lower(uploaded_file.ext) \in ALLOWED_EXTENSIONS

LoaderExts == {"pdf", "docx", "json", "csv", "py", "ipynb"}

ImageExts == {"jpg", "png", "jpeg"}

IsImage(f) == f.ext \in ImageExts

IsOther(f) == ~IsImage(f)

(***************************************************************************)
(* Documents.  A loader turns a file into one document per page; the      *)
(* image describer into one description; a failed image into a            *)
(* placeholder.  The splitter keeps the source metadata, so a chunk is     *)
(* identified by the document it was cut from.                             *)
(***************************************************************************)
Doc(f, p, k) == [src |-> f, page |-> p, kind |-> k]

LoadOutcomes(f) ==
    IF f.ext \in LoaderExts THEN {"raise", "one", "many"}
    ELSE IF f.ext \in ImageExts THEN {"raise", "one"}
    ELSE {"unsupported"}

Loaded(f, r) ==
    IF r = "many" THEN [p \in 1..ManyPages |-> Doc(f, p, "text")]
    ELSE <<Doc(f, 1, "text")>>

get_image_desc(img, r) ==
    IF r = "raise" THEN [raised |-> TRUE, docs |-> <<>>]
    ELSE [raised |-> FALSE, docs |-> <<Doc(img, 1, "desc")>>]

process_input_file(input_file_name, r) ==
    IF input_file_name.ext \in LoaderExts
    THEN IF r = "raise" THEN <<>> ELSE Loaded(input_file_name, r)
    ELSE IF input_file_name.ext \in ImageExts
    THEN get_image_desc(input_file_name, r).docs
    ELSE <<>>

\* mutant of get_images_desc_batch: a failed image is logged and gets no
\* placeholder document
get_images_desc_batch_no_placeholder(image_paths, res, ord) ==
    LET done == Reorder(image_paths, ord)
        One(img) == get_image_desc(img, res[img]).docs
    IN  Flatten([i \in 1..Len(done) |-> One(done[i])])

get_images_desc_batch(image_paths, res, ord) ==
    LET done == Reorder(image_paths, ord)
        One(img) ==
            LET d == get_image_desc(img, res[img])
            IN  IF d.raised THEN <<Doc(img, 1, "placeholder")>> ELSE d.docs
    IN  Flatten([i \in 1..Len(done) |-> One(done[i])])

\* mutant of process_input_files_batch: a file that yields an error aborts the
\* batch instead of being skipped
process_input_files_batch_abort(input_file_names, res, ordI, ordO) ==
    IF \E i \in DOMAIN input_file_names :
         res[input_file_names[i]] \in {"raise", "unsupported"}
    THEN [raised |-> TRUE, docs |-> <<>>]
    ELSE [raised |-> FALSE,
          docs |-> Flatten([i \in DOMAIN input_file_names |->
                     process_input_file(input_file_names[i], res[input_file_names[i]])])]

process_input_files_batch(input_file_names, res, ordI, ordO) ==
    LET image_files == SelectSeq(input_file_names, IsImage)
        other_files == SelectSeq(input_file_names, IsOther)
        image_docs == get_images_desc_batch(image_files, res, ordI)
        done == Reorder(other_files, ordO)
        other_docs ==
            Flatten([i \in 1..Len(done) |-> process_input_file(done[i], res[done[i]])])
    IN  [raised |-> FALSE, docs |-> image_docs \o other_docs]

(***************************************************************************)
(* get_splits: sequential up to 10 documents (an exception propagates),    *)
(* otherwise batches on a pool; a failed batch contributes nothing.        *)
(* poison is the set of source files whose text makes the splitter raise.  *)
(***************************************************************************)
get_optimal_workers_mixed == Min(MixedWorkersCap, DefaultCpuCount + MixedWorkersExtra)

HasPoison(docs, poison) == \E i \in DOMAIN docs : docs[i].src \in poison

get_splits(docs, max_workers, poison) ==
    IF docs = <<>> THEN [raised |-> FALSE, splits |-> <<>>]
    ELSE IF Len(docs) <= SequentialSplitLimit
    THEN IF HasPoison(docs, poison)
         THEN [raised |-> TRUE, splits |-> <<>>]
         ELSE [raised |-> FALSE, splits |-> docs]
    ELSE LET mw == IF max_workers # 0 THEN max_workers ELSE Min(4, Len(docs) \div 5)
             batch_size == Max(1, Len(docs) \div mw)
             nb == (Len(docs) + batch_size - 1) \div batch_size
             Batch(b) == SubSeq(docs, (b - 1) * batch_size + 1, Min(b * batch_size, Len(docs)))
             Result(b) == IF HasPoison(Batch(b), poison) THEN <<>> ELSE Batch(b)
         IN  [raised |-> FALSE, splits |-> Flatten([b \in 1..nb |-> Result(b)])]

PoisonSets(docs) == {{}} \cup {{docs[i].src} : i \in DOMAIN docs}

(***************************************************************************)
(* State                                                                   *)
(***************************************************************************)
VARIABLES
    processed,      \* st.session_state['processed']: list of file names
    db,             \* st.session_state['db']: index reference or NoIndex
    store,          \* contents of the index objects: id -> set of chunks
    msg,            \* what the upload page announced for the last run
    dirExists,      \* data/{session_id} exists
    staged,         \* file names written into data/{session_id}
    pc,             \* position of the process_docs call in progress
    pd,             \* arguments, locals and outcome of the current/last call
    ncalls,         \* number of process_docs calls started
    chatbot,        \* st.session_state['chatbot']: the RAGChatbot, if created
    chat_ret,       \* what the last RAGChatbot.chat call returned
    epc,            \* position of the embed_documents call
    e_texts,        \* embed_documents: the argument texts
    e_batch_size,   \* TextEmbeddings.batch_size
    e_max_workers,  \* TextEmbeddings.max_workers
    e_start,        \* embed_documents: loop variable i (offset of the batch)
    e_tasks,        \* _embed_batch: the futures of the batch, by index
    e_embeddings,   \* _embed_batch: embeddings
    e_all,          \* embed_documents: all_embeddings
    e_ret,          \* what embed_documents returned
    e_failed,       \* positions of e_texts whose embed call raised
    e_dim,          \* length of the vectors the embedding endpoint returns
    r_pc,           \* position of the retrieve_context call
    r_index,        \* retrieve_context: the chunks stored in self.database
    r_dist,         \* distance of every chunk to the query, in tenths
    r_k,            \* retrieve_context: the argument k
    r_scored,       \* what similarity_search_with_score did
    r_fallback,     \* what the fallback similarity_search did
    r_ret,          \* what retrieve_context returned
    g_pc,           \* position of the generate_response call
    g_reply,        \* what the text-generation endpoint does with the request
    g_ret,          \* what generate_response returned
    h_pc,           \* stage of the ingestion call whose requests are followed
    h_files,        \* the staged files of that call: "image" or "document"
    h_tasks,        \* the worker-pool tasks of the current stage
    k_pc,           \* position of the embed call whose configuration is followed
    k_max_retries,  \* RAGConfig.MAX_RETRIES, as update_from_dict left it
    k_range,        \* embed: length of range(RAGConfig.MAX_RETRIES) of the loop
    k_task,         \* embed: the text, the loop variable attempt and the result
    i_pc,           \* position of the get_images_desc_batch call
    i_paths,        \* get_images_desc_batch: the argument image_paths
    i_res,          \* what get_image_desc does for every image file
    i_ord,          \* the order in which as_completed yields the futures
    i_ret,          \* what get_images_desc_batch returned
    s_pc,           \* position of the get_splits call
    s_docs,         \* get_splits: the argument docs (documents by number)
    s_max_workers,  \* get_splits: the argument max_workers, 0 for None
    s_chunks,       \* number of chunks the splitter cuts every document into
    s_poison,       \* documents whose text makes the splitter raise
    s_batches,      \* get_splits: batches
    s_done,         \* the batches whose future as_completed has yielded
    s_batch_results,\* get_splits: batch_results
    s_unordered,    \* a batch completed before a batch that precedes it
    s_ret,          \* what get_splits returned
    f_pc,           \* position of the retrieve_enhanced_context call
    f_query,        \* retrieve_enhanced_context: the shape of the argument query
    f_k,            \* retrieve_enhanced_context: the argument k
    f_contexts,     \* what retrieve_context returned for every query variant
    f_ret,          \* what retrieve_enhanced_context returned
    x_pc,           \* position of the browser session: login page, or a page run
    x_session,      \* st.session_state: authenticated, user id, token, session-id, page
    x_uuids,        \* number of uuid1() values initialize_session_state has drawn
    x_logins,       \* number of session tokens _create_session has issued
    x_used,         \* the session ids process_docs was given since the last login
    x_calls,        \* number of process_docs calls since the last login
    y_actor,        \* the session whose call took the last step
    y_pc,           \* position of every session's process_docs call
    y_calls,        \* number of process_docs calls of every session
    y_frame,        \* every session's call: the uploaded file name, temp_files, all_docs
    y_dir,          \* data/{session_id} of every session: exists, and the bytes of its file
    y_processed,    \* every session's processed_files
    y_index,        \* every session's index: the chunks, by the upload they were cut from
    y_history,      \* length of every session's conversation history
    h_op,           \* the last operation on the chatbot: chat or clear
    h_bot,          \* the RAGChatbot instance
    h_old,          \* conversation_history as it was when the last operation began
    h_msg,          \* user_message of the last chat call
    h_ret,          \* the value the last chat call returned
    h_calls,        \* number of chat calls made
    q_pc,           \* position of the enhance_query call
    q_query,        \* the query given to enhance_query
    q_ret,          \* the list enhance_query returned
    a_now,          \* the clock, in minutes
    a_users,        \* table users, by lower-cased email
    a_otps,         \* table email_otps: a set of rows
    a_sessions,     \* table user_sessions: a set of rows
    a_lock,         \* the connection that holds the database's write lock
    a_login,        \* the login_user call in progress of every client
    a_last,         \* the AuthManager call that returned last, and its result
    a_made,         \* numbers of OTP rows and session tokens stored, and of logins begun
    a_verified,     \* emails whose verify_otp succeeded, not removed since
    a_authorised,   \* emails whose verify_password_reset_otp succeeded, not spent since
    a_wrong,        \* wrong codes submitted so far, by OTP row id
    a_success,      \* successful verifications so far, by OTP row id
    a_deactivated   \* session tokens that were deactivated, and by which operation

vars ==
    <<processed, db, store, msg, dirExists, staged, pc, pd, ncalls, chatbot, chat_ret,
      epc, e_texts, e_batch_size, e_max_workers, e_start, e_tasks, e_embeddings,
      e_all, e_ret, e_failed, e_dim,
      r_pc, r_index, r_dist, r_k, r_scored, r_fallback, r_ret,
      g_pc, g_reply, g_ret,
      h_pc, h_files, h_tasks,
      k_pc, k_max_retries, k_range, k_task,
      i_pc, i_paths, i_res, i_ord, i_ret,
      s_pc, s_docs, s_max_workers, s_chunks, s_poison, s_batches, s_done, s_batch_results, s_unordered, s_ret,
      f_pc, f_query, f_k, f_contexts, f_ret,
      x_pc, x_session, x_uuids, x_logins, x_used, x_calls,
      y_actor, y_pc, y_calls, y_frame, y_dir, y_processed, y_index, y_history,
      h_op, h_bot, h_old, h_msg, h_ret, h_calls,
      q_pc, q_query, q_ret,
      a_now, a_users, a_otps, a_sessions, a_lock, a_login, a_last, a_made, a_verified, a_authorised, a_wrong, a_success, a_deactivated>>

embedVars ==
    <<epc, e_texts, e_batch_size, e_max_workers, e_start, e_tasks, e_embeddings,
      e_all, e_ret, e_failed, e_dim>>

sessionVars ==
    <<processed, db, store, msg, dirExists, staged, pc, pd, ncalls, chatbot, chat_ret>>

ingestVars == <<processed, db, store, msg, dirExists, staged, pc, pd, ncalls>>

chatVars == <<chatbot, chat_ret>>

retrieveVars == <<r_pc, r_index, r_dist, r_k, r_scored, r_fallback, r_ret>>

generateVars == <<g_pc, g_reply, g_ret>>

poolVars == <<h_pc, h_files, h_tasks>>

retryVars == <<k_pc, k_max_retries, k_range, k_task>>

imageVars == <<i_pc, i_paths, i_res, i_ord, i_ret>>

splitVars == <<s_pc, s_docs, s_max_workers, s_chunks, s_poison, s_batches, s_done, s_batch_results, s_unordered, s_ret>>

fuseVars == <<f_pc, f_query, f_k, f_contexts, f_ret>>

pageVars == <<x_pc, x_session, x_uuids, x_logins, x_used, x_calls>>

isolationVars == <<y_actor, y_pc, y_calls, y_frame, y_dir, y_processed, y_index, y_history>>

historyVars == <<h_op, h_bot, h_old, h_msg, h_ret, h_calls>>

queryVars == <<q_pc, q_query, q_ret>>

authVars == <<a_now, a_users, a_otps, a_sessions, a_lock, a_login, a_last, a_made, a_verified, a_authorised, a_wrong, a_success, a_deactivated>>

notSession == <<embedVars, retrieveVars, generateVars, poolVars, retryVars, imageVars, splitVars, fuseVars, pageVars, isolationVars, historyVars, queryVars, authVars>>

notEmbed == <<sessionVars, retrieveVars, generateVars, poolVars, retryVars, imageVars, splitVars, fuseVars, pageVars, isolationVars, historyVars, queryVars, authVars>>

notRetrieve == <<sessionVars, embedVars, generateVars, poolVars, retryVars, imageVars, splitVars, fuseVars, pageVars, isolationVars, historyVars, queryVars, authVars>>

notGenerate == <<sessionVars, embedVars, retrieveVars, poolVars, retryVars, imageVars, splitVars, fuseVars, pageVars, isolationVars, historyVars, queryVars, authVars>>

notPool == <<sessionVars, embedVars, retrieveVars, generateVars, retryVars, imageVars, splitVars, fuseVars, pageVars, isolationVars, historyVars, queryVars, authVars>>

notRetry == <<sessionVars, embedVars, retrieveVars, generateVars, poolVars, imageVars, splitVars, fuseVars, pageVars, isolationVars, historyVars, queryVars, authVars>>

notImages == <<sessionVars, embedVars, retrieveVars, generateVars, poolVars, retryVars, splitVars, fuseVars, pageVars, isolationVars, historyVars, queryVars, authVars>>

notSplit == <<sessionVars, embedVars, retrieveVars, generateVars, poolVars, retryVars, imageVars, fuseVars, pageVars, isolationVars, historyVars, queryVars, authVars>>

notFuse == <<sessionVars, embedVars, retrieveVars, generateVars, poolVars, retryVars, imageVars, splitVars, pageVars, isolationVars, historyVars, queryVars, authVars>>

notPages == <<sessionVars, embedVars, retrieveVars, generateVars, poolVars, retryVars, imageVars, splitVars, fuseVars, isolationVars, historyVars, queryVars, authVars>>

notSessions == <<sessionVars, embedVars, retrieveVars, generateVars, poolVars, retryVars, imageVars, splitVars, fuseVars, pageVars, historyVars, queryVars, authVars>>

notHistory == <<sessionVars, embedVars, retrieveVars, generateVars, poolVars, retryVars, imageVars, splitVars, fuseVars, pageVars, isolationVars, queryVars, authVars>>

notQuery == <<sessionVars, embedVars, retrieveVars, generateVars, poolVars, retryVars, imageVars, splitVars, fuseVars, pageVars, isolationVars, historyVars, authVars>>

notAuth == <<sessionVars, embedVars, retrieveVars, generateVars, poolVars, retryVars, imageVars, splitVars, fuseVars, pageVars, isolationVars, historyVars, queryVars>>

NoFrame ==
    [caller |-> "none", uploaded_files |-> <<>>, existing_db |-> NoIndex,
     pre_processed |-> <<>>, temp_files |-> <<>>, new_processed |-> <<>>,
     res |-> <<>>, all_docs |-> <<>>, splits |-> <<>>, ret_db |-> NoIndex,
     outcome |-> "none", at |-> "none", calls |-> {}, add |-> "none",
     write |-> "none", rm |-> "none"]

NoChatbot == [made |-> FALSE, database |-> NoIndex, conversation_history |-> <<>>]

NoChat ==
    [called |-> FALSE, raised |-> FALSE, response |-> "none", sources |-> 0,
     context_chunks |-> 0, conversation_length |-> 0]

InitSession ==
    /\ processed = <<>>
    /\ db = NoIndex
    /\ store = [i \in 1..MaxCalls |-> {}]
    /\ msg = "none"
    /\ dirExists = FALSE
    /\ staged = {}
    /\ pc = "idle"
    /\ pd = NoFrame
    /\ ncalls = 0
    /\ chatbot = NoChatbot
    /\ chat_ret = NoChat

EmbedOff ==
    /\ epc = "off"
    /\ e_texts = <<>>
    /\ e_batch_size = 1
    /\ e_max_workers = 1
    /\ e_start = 0
    /\ e_tasks = <<>>
    /\ e_embeddings = <<>>
    /\ e_all = <<>>
    /\ e_ret = <<>>
    /\ e_failed = {}
    /\ e_dim = 0

NoSearch == [st |-> "none", hits |-> <<>>]

RetrieveOff ==
    /\ r_pc = "off"
    /\ r_index = {}
    /\ r_dist = <<>>
    /\ r_k = 0
    /\ r_scored = NoSearch
    /\ r_fallback = NoSearch
    /\ r_ret = <<>>

GenerateOff ==
    /\ g_pc = "off"
    /\ g_reply = <<>>
    /\ g_ret = <<>>

PoolOff ==
    /\ h_pc = "off"
    /\ h_files = <<>>
    /\ h_tasks = <<>>

RetryOff ==
    /\ k_pc = "off"
    /\ k_max_retries = MAX_RETRIES
    /\ k_range = 0
    /\ k_task = <<>>

ImagesOff ==
    /\ i_pc = "off"
    /\ i_paths = <<>>
    /\ i_res = <<>>
    /\ i_ord = <<>>
    /\ i_ret = <<>>

SplitOff ==
    /\ s_pc = "off"
    /\ s_docs = <<>>
    /\ s_max_workers = 0
    /\ s_chunks = <<>>
    /\ s_poison = {}
    /\ s_batches = <<>>
    /\ s_done = {}
    /\ s_batch_results = <<>>
    /\ s_unordered = FALSE
    /\ s_ret = <<>>

FuseOff ==
    /\ f_pc = "off"
    /\ f_query = <<>>
    /\ f_k = 0
    /\ f_contexts = <<>>
    /\ f_ret = <<>>

PagesOff ==
    /\ x_pc = "off"
    /\ x_session = <<>>
    /\ x_uuids = 0
    /\ x_logins = 0
    /\ x_used = {}
    /\ x_calls = 0

SessionsOff ==
    /\ y_actor = "none"
    /\ y_pc = <<>>
    /\ y_calls = <<>>
    /\ y_frame = <<>>
    /\ y_dir = <<>>
    /\ y_processed = <<>>
    /\ y_index = <<>>
    /\ y_history = <<>>

HistoryOff ==
    /\ h_op = "none"
    /\ h_bot = <<>>
    /\ h_old = <<>>
    /\ h_msg = "none"
    /\ h_ret = <<>>
    /\ h_calls = 0

QueryOff ==
    /\ q_pc = "off"
    /\ q_query = <<>>
    /\ q_ret = <<>>

AuthOff ==
    /\ a_now = 0
    /\ a_users = <<>>
    /\ a_otps = {}
    /\ a_sessions = {}
    /\ a_lock = "none"
    /\ a_login = <<>>
    /\ a_last = <<>>
    /\ a_made = <<>>
    /\ a_verified = {}
    /\ a_authorised = {}
    /\ a_wrong = <<>>
    /\ a_success = <<>>
    /\ a_deactivated = {}

Init == InitSession /\ EmbedOff /\ RetrieveOff /\ GenerateOff /\ PoolOff /\ RetryOff /\ ImagesOff /\ SplitOff /\ FuseOff /\ PagesOff /\ SessionsOff /\ HistoryOff /\ QueryOff /\ AuthOff

(***************************************************************************)
(* process_docs, entered from the upload page or called directly           *)
(***************************************************************************)
Enter(caller, files) ==
    /\ pc = "idle"
    /\ ncalls < MaxCalls
    /\ ncalls' = ncalls + 1
    /\ pd' = [NoFrame EXCEPT !.caller = caller, !.uploaded_files = files,
                             !.existing_db = db, !.pre_processed = processed]
    /\ pc' = "makedirs"
    /\ msg' = "none"
    /\ chat_ret' = NoChat
    /\ UNCHANGED <<processed, db, store, dirExists, staged, chatbot, notSession>>

StartProcessing(uploaded_files) ==
    LET valid_files == SelectSeq(uploaded_files, validate_file_type)
    IN  /\ valid_files # <<>>
        /\ Enter("page", valid_files)

DirectCall(uploaded_files) == Enter("api", uploaded_files)

MakeDirsOk ==
    /\ pc = "makedirs"
    /\ dirExists' = TRUE
    /\ pc' = "staging"
    /\ UNCHANGED <<processed, db, store, msg, staged, pd, ncalls, chatbot, chat_ret, notSession>>

MakeDirsRaise ==
    /\ pc = "makedirs"
    /\ ~dirExists
    /\ pd' = [pd EXCEPT !.outcome = "raised"]
    /\ msg' = IF pd.caller = "page" THEN "failed" ELSE msg
    /\ pc' = "idle"
    /\ UNCHANGED <<processed, db, store, dirExists, staged, ncalls, chatbot, chat_ret, notSession>>

IsNew(name) == name \notin Range(processed)

\* mutant of stage_exception: the handler returns no index
stage_exception_drops_index(frame, at) ==
    [frame EXCEPT !.outcome = "stage_exception", !.at = at, !.ret_db = NoIndex]

\* the except clause of process_docs, lines 236-238: the exception of stage
\* `at` is logged and the call returns (existing_db, processed_files)
stage_exception(frame, at) ==
    [frame EXCEPT !.outcome = "stage_exception", !.at = at,
                  !.ret_db = frame.existing_db]

StageFiles(failAt) ==
    /\ pc = "staging"
    /\ failAt \in 0..Len(pd.uploaded_files)
    /\ failAt > 0 => IsNew(pd.uploaded_files[failAt])
    /\ LET n == IF failAt = 0 THEN Len(pd.uploaded_files) ELSE failAt - 1
           written == SelectSeq(SubSeq(pd.uploaded_files, 1, n), IsNew)
       IN  /\ staged' = staged \cup Range(written)
           /\ IF failAt > 0
              THEN /\ pd' = stage_exception([pd EXCEPT !.temp_files = written,
                                                       !.new_processed = written],
                                            "staging")
                   /\ pc' = "finally"
              ELSE IF written = <<>>
              THEN /\ pd' = [pd EXCEPT !.outcome = "no_new_files",
                                       !.ret_db = pd.existing_db]
                   /\ pc' = "finally"
              ELSE /\ pd' = [pd EXCEPT !.temp_files = written, !.new_processed = written]
                   /\ pc' = "loading"
    /\ UNCHANGED <<processed, db, store, msg, dirExists, ncalls, chatbot, chat_ret, notSession>>

LoadCalls(files) ==
    (IF \E i \in DOMAIN files : files[i].ext \in LoaderExts THEN {"loader"} ELSE {})
    \cup (IF \E i \in DOMAIN files : IsImage(files[i]) THEN {"vision"} ELSE {})

LoadFiles ==
    /\ pc = "loading"
    /\ \E res \in [Range(pd.temp_files) -> {"raise", "one", "many", "unsupported"}] :
         /\ \A f \in Range(pd.temp_files) : res[f] \in LoadOutcomes(f)
         /\ \E ordI \in Perms(Len(SelectSeq(pd.temp_files, IsImage))),
               ordO \in Perms(Len(SelectSeq(pd.temp_files, IsOther))) :
              LET batch == process_input_files_batch(pd.temp_files, res, ordI, ordO)
                  all_docs == batch.docs
                  calls == pd.calls \cup LoadCalls(pd.temp_files)
              IN  IF batch.raised
                  THEN /\ pd' = stage_exception([pd EXCEPT !.res = res, !.calls = calls],
                                                "loading")
                       /\ pc' = "finally"
                  ELSE IF all_docs = <<>>
                  THEN /\ pd' = [pd EXCEPT !.res = res, !.calls = calls,
                                           !.outcome = "no_documents",
                                           !.ret_db = pd.existing_db]
                       /\ pc' = "finally"
                  ELSE /\ pd' = [pd EXCEPT !.res = res, !.calls = calls,
                                           !.all_docs = all_docs]
                       /\ pc' = "splitting"
    /\ UNCHANGED <<processed, db, store, msg, dirExists, staged, ncalls, chatbot, chat_ret, notSession>>

SplitDocs ==
    /\ pc = "splitting"
    /\ \E poison \in PoisonSets(pd.all_docs) :
         LET r == get_splits(pd.all_docs, get_optimal_workers_mixed, poison)
         IN  IF r.raised
             THEN /\ pd' = stage_exception(pd, "splitting")
                  /\ pc' = "finally"
             ELSE IF r.splits = <<>>
             THEN /\ pd' = [pd EXCEPT !.outcome = "no_splits",
                                      !.ret_db = pd.existing_db]
                  /\ pc' = "finally"
             ELSE /\ pd' = [pd EXCEPT !.splits = r.splits]
                  /\ pc' = "commit"
    /\ UNCHANGED <<processed, db, store, msg, dirExists, staged, ncalls, chatbot, chat_ret, notSession>>

get_db(splits, createOk, newId) ==
    IF splits = <<>> THEN NoIndex
    ELSE IF createOk THEN newId ELSE NoIndex

\* mutant of index_write: the fallback index is built from the entries of
\* the previous index together with the new chunks
index_write_keeps_old(existing_db, splits, addOk, createOk, newId, contents) ==
    LET chunks == Range(splits)
        created == get_db(splits, createOk, newId)
    IN  IF existing_db # NoIndex /\ addOk
        THEN [db |-> existing_db,
              contents |-> [contents EXCEPT ![existing_db] = @ \cup chunks]]
        ELSE IF created = NoIndex
        THEN [db |-> NoIndex, contents |-> contents]
        ELSE IF existing_db # NoIndex
        THEN [db |-> created,
              contents |-> [contents EXCEPT ![created] = contents[existing_db] \cup chunks]]
        ELSE [db |-> created, contents |-> [contents EXCEPT ![created] = chunks]]

\* lines 213-225: a first index is created by get_db; an existing index takes
\* the new chunks in place, and when add_documents raises get_db builds a
\* new index from the new chunks
index_write(existing_db, splits, addOk, createOk, newId, contents) ==
    LET chunks == Range(splits)
        created == get_db(splits, createOk, newId)
    IN  IF existing_db # NoIndex /\ addOk
        THEN [db |-> existing_db,
              contents |-> [contents EXCEPT ![existing_db] = @ \cup chunks]]
        ELSE IF created = NoIndex
        THEN [db |-> NoIndex, contents |-> contents]
        ELSE [db |-> created, contents |-> [contents EXCEPT ![created] = chunks]]

Commit(addOk, createOk) ==
    /\ pc = "commit"
    /\ LET inPlace == pd.existing_db # NoIndex /\ addOk
           w == index_write(pd.existing_db, pd.splits, addOk, createOk, ncalls, store)
       IN  /\ pd.existing_db = NoIndex => addOk
           /\ inPlace => createOk
           /\ store' = w.contents
           /\ processed' = processed \o pd.new_processed
           /\ pd' = [pd EXCEPT !.ret_db = w.db, !.outcome = "committed",
                               !.calls = @ \cup {"index"},
                               !.add = IF pd.existing_db = NoIndex THEN "none"
                                       ELSE IF addOk THEN "ok" ELSE "raised",
                               !.write = IF w.db # NoIndex THEN "ok" ELSE "failed"]
    /\ pc' = "finally"
    /\ UNCHANGED <<db, msg, dirExists, staged, ncalls, chatbot, chat_ret, notSession>>

\* mutant of cleanup_staging: the existence test of line 243 negated
cleanup_staging_negated(exists, rmOk) == IF ~exists /\ rmOk THEN FALSE ELSE exists

\* lines 243-244: whether data/{session_id} exists after the finally block
cleanup_staging(exists, rmOk) == IF exists /\ rmOk THEN FALSE ELSE exists

Returned(frame) ==
    [frame EXCEPT !.temp_files = <<>>, !.new_processed = <<>>, !.res = <<>>,
                  !.all_docs = <<>>, !.splits = <<>>]

CleanupAndReturn(rmOk) ==
    /\ pc = "finally"
    /\ dirExists' = cleanup_staging(dirExists, rmOk)
    /\ staged' = IF dirExists' THEN staged ELSE {}
    /\ ~dirExists => rmOk
    /\ db' = pd.ret_db
    /\ msg' = IF pd.caller = "page"
              THEN (IF pd.existing_db = NoIndex THEN "created" ELSE "updated")
              ELSE msg
    /\ pd' = [Returned(pd) EXCEPT !.rm = IF ~dirExists THEN "absent"
                                        ELSE IF rmOk THEN "ok" ELSE "failed"]
    /\ pc' = "idle"
    /\ UNCHANGED <<processed, store, ncalls, chatbot, chat_ret, notSession>>

(***************************************************************************)
(* The chat page: chat_interface creates the chatbot once per session and  *)
(* RAGChatbot.chat answers one message.                                    *)
(***************************************************************************)
RAGChatbot(database) ==
    [made |-> TRUE, database |-> database, conversation_history |-> <<>>]

(***************************************************************************)
(* generate_response.  A Python value is its type and, for a string, the   *)
(* pieces it was formatted from.  The endpoint's reply is an HTTP response *)
(* (status and body), a timeout, or another exception of the request; a    *)
(* JSON body is an object with or without the key 'response', another      *)
(* JSON value, or no JSON at all.                                          *)
(***************************************************************************)
Str(parts) == [type |-> "str", parts |-> parts]

PyNone == [type |-> "NoneType", parts |-> <<>>]

ResponseValues == {Str(<<"answer">>), Str(<<>>), PyNone}

Bodies ==
    {[json |-> "object", has |-> TRUE, response |-> v] : v \in ResponseValues}
        \cup {[json |-> j, has |-> FALSE, response |-> PyNone] :
                  j \in {"object", "array", "invalid"}}

NoBody == [json |-> "none", has |-> FALSE, response |-> PyNone]

StatusCodes == {200, 201, 400, 401, 403, 404, 429, 500, 502, 503}

Replies ==
    {[kind |-> "response", status |-> c, body |-> b, exc |-> "none"] :
        c \in StatusCodes, b \in Bodies}
        \cup {[kind |-> "timeout", status |-> 0, body |-> NoBody, exc |-> e] :
                  e \in {"ConnectTimeout", "ReadTimeout"}}
        \cup {[kind |-> "error", status |-> 0, body |-> NoBody, exc |-> e] :
                  e \in {"ConnectionError", "SSLError", "StreamlitSecretNotFoundError"}}

\* response.json()['response'], line 232
json_response(body) ==
    IF body.json = "invalid"
    THEN [raised |-> TRUE, exc |-> "JSONDecodeError", value |-> PyNone]
    ELSE IF body.json = "array"
    THEN [raised |-> TRUE, exc |-> "TypeError", value |-> PyNone]
    ELSE IF ~body.has
    THEN [raised |-> TRUE, exc |-> "KeyError", value |-> PyNone]
    ELSE [raised |-> FALSE, exc |-> "none", value |-> body.response]

\* lines 212-239
generate_response(reply) ==
    IF reply.kind = "timeout"
    THEN Str(<<"Error: Request timed out. Please try again.">>)
    ELSE IF reply.kind = "error"
    THEN Str(<<"Error generating response: ", reply.exc>>)
    ELSE IF reply.status = 200
    THEN LET r == json_response(reply.body)
         IN  IF r.raised
             THEN Str(<<"Error generating response: ", r.exc>>)
             ELSE r.value
    ELSE Str(<<"Error: Failed to get response from AI model (Status: ",
               ToString(reply.status), ")">>)

GenOutcomes == {"ok", "status", "timeout", "error"}

ReplyOf(gen) ==
    CASE gen = "ok" ->
           [kind |-> "response", status |-> 200,
            body |-> [json |-> "object", has |-> TRUE, response |-> Str(<<"answer">>)],
            exc |-> "none"]
      [] gen = "status" ->
           [kind |-> "response", status |-> 500,
            body |-> [json |-> "invalid", has |-> FALSE, response |-> PyNone],
            exc |-> "none"]
      [] gen = "timeout" ->
           [kind |-> "timeout", status |-> 0, body |-> NoBody, exc |-> "ReadTimeout"]
      [] OTHER ->
           [kind |-> "error", status |-> 0, body |-> NoBody, exc |-> "ConnectionError"]

retrieve_enhanced_context(bot, hits, searchOk) ==
    IF bot.database = NoIndex THEN 0
    ELSE IF ~searchOk THEN 0
    ELSE Min(hits, Cardinality(store[bot.database]))

get_sources(bot, hits, searchOk) ==
    IF bot.database = NoIndex THEN 0
    ELSE IF ~searchOk THEN 0
    ELSE Min(hits, Cardinality(store[bot.database]))

\* mutant of chat: a turn whose answer is an error string is not stored
chat_skip_error_turn(bot, user_message, hits, searchOk, srcOk, gen) ==
    LET context == retrieve_enhanced_context(bot, hits, searchOk)
        sources == get_sources(bot, hits, srcOk)
        bot_response == generate_response(ReplyOf(gen))
        history == IF gen = "ok"
                   THEN Append(bot.conversation_history,
                               [user |-> user_message, bot |-> bot_response,
                                context_used |-> context])
                   ELSE bot.conversation_history
    IN  [bot |-> [bot EXCEPT !.conversation_history = history],
         ret |-> [called |-> TRUE, raised |-> FALSE, response |-> bot_response,
                  sources |-> sources, context_chunks |-> context,
                  conversation_length |-> Len(history)]]

chat(bot, user_message, hits, searchOk, srcOk, gen) ==
    LET context == retrieve_enhanced_context(bot, hits, searchOk)
        sources == get_sources(bot, hits, srcOk)
        bot_response == generate_response(ReplyOf(gen))
        history == Append(bot.conversation_history,
                          [user |-> user_message, bot |-> bot_response,
                           context_used |-> context])
    IN  [bot |-> [bot EXCEPT !.conversation_history = history],
         ret |-> [called |-> TRUE, raised |-> FALSE, response |-> bot_response,
                  sources |-> sources, context_chunks |-> context,
                  conversation_length |-> Len(history)]]

ChatSend(hits, searchOk, srcOk, gen) ==
    /\ pc = "idle"
    /\ db # NoIndex
    /\ Len(chatbot.conversation_history) < MaxTurns
    /\ LET bot == IF chatbot.made THEN chatbot ELSE RAGChatbot(db)
           r == chat(bot, "q", hits, searchOk, srcOk, gen)
       IN  /\ chatbot' = r.bot
           /\ chat_ret' = r.ret
    /\ UNCHANGED <<ingestVars, notSession>>

\* mutant of clear_chat_history: the button also empties the processed list
clear_chat_history_and_corpus(session) ==
    [session EXCEPT !.chatbot.conversation_history = <<>>, !.processed = <<>>]

\* chat_interface lines 372-379, on the session-state keys it can reach
clear_chat_history(session) ==
    [session EXCEPT !.chatbot.conversation_history = <<>>]

ClearChatHistory ==
    /\ pc = "idle"
    /\ db # NoIndex
    /\ chatbot.made
    /\ chatbot.conversation_history # <<>>
    /\ LET session == clear_chat_history([chatbot |-> chatbot, processed |-> processed,
                                          db |-> db])
       IN  /\ chatbot' = session.chatbot
           /\ processed' = session.processed
           /\ db' = session.db
    /\ chat_ret' = NoChat
    /\ UNCHANGED <<store, msg, dirExists, staged, pc, pd, ncalls, notSession>>

Next ==
    \/ \E files \in UploadLists : StartProcessing(files)
    \/ \E files \in UploadLists : DirectCall(files)
    \/ MakeDirsOk
    \/ MakeDirsRaise
    \/ \E failAt \in 0..MaxUpload : StageFiles(failAt)
    \/ LoadFiles
    \/ SplitDocs
    \/ \E addOk, createOk \in BOOLEAN : Commit(addOk, createOk)
    \/ \E rmOk \in BOOLEAN : CleanupAndReturn(rmOk)
    \/ \E searchOk, srcOk \in BOOLEAN, gen \in GenOutcomes :
         ChatSend(1, searchOk, srcOk, gen)
    \/ ClearChatHistory

Spec == Init /\ [][Next]_vars

(***************************************************************************)
(* Properties of the ingestion pipeline and the chat entry point (Spec)    *)
(***************************************************************************)
Called == pd.outcome # "none"

HasChunks(idx, f) == idx # NoIndex /\ \E c \in store[idx] : c.src = f

\* C1: if the index write of a process_docs call failed, the processed-file
\* list returned equals the list before the call and the index returned is
\* the object passed as existing_db.
C1_AtomicIngestion ==
    (pc = "finally" /\ pd.write = "failed") =>
        /\ processed = pd.pre_processed
        /\ pd.ret_db = pd.existing_db

\* C2: between process_docs calls, a file name is in processed_files if and
\* only if chunks of that file are stored in the session's current index.
C2_SessionInvariant ==
    pc = "idle" =>
        \A f \in FileNames : (f \in Range(processed)) <=> HasChunks(db, f)

\* C3: a process_docs call whose uploaded names are all in processed_files
\* returns the pre-call pair unchanged, makes no loader, vision or index
\* call and raises no exception.
C3_IdempotentReingestion ==
    (pc = "idle" /\ Called /\ Range(pd.uploaded_files) \subseteq Range(pd.pre_processed)) =>
        /\ pd.outcome = "no_new_files"
        /\ db = pd.existing_db
        /\ processed = pd.pre_processed
        /\ pd.calls = {}

BadPositions == {i \in DOMAIN pd.temp_files : pd.res[pd.temp_files[i]] \in {"raise", "unsupported"}}

ExpectedDocs(f) ==
    IF IsImage(f) THEN {Doc(f, 1, "desc")}
    ELSE IF pd.res[f] = "many" THEN {Doc(f, p, "text") : p \in 1..ManyPages}
    ELSE {Doc(f, 1, "text")}

Loading == pd.temp_files # <<>> /\ pd.res # <<>>

\* C8: when exactly one of the N files handed to process_input_files_batch has
\* an unsupported extension or a loader that raises, the result contains the
\* documents of the other N-1 files and the call does not raise.
C8_FailSoftBatchLoading ==
    (Loading /\ Cardinality(BadPositions) = 1) =>
        /\ pd.at # "loading"
        /\ \A i \in DOMAIN pd.temp_files :
             i \notin BadPositions =>
                ExpectedDocs(pd.temp_files[i]) \subseteq Range(pd.all_docs)

C8_Witness ==
    /\ pc = "splitting"
    /\ Len(pd.temp_files) = 2
    /\ Cardinality(BadPositions) = 1
    /\ \E i \in DOMAIN pd.temp_files :
         i \notin BadPositions /\ ExpectedDocs(pd.temp_files[i]) \subseteq Range(pd.all_docs)

\* C9: no call of process_docs and no call of RAGChatbot.chat raises to its
\* caller.
C9_NoUnhandledException == pd.outcome # "raised" /\ ~chat_ret.raised

\* C10: when a stage of process_docs failed, the upload page does not announce
\* that the database was created or updated.
C10_FailureReported ==
    (pc = "idle" /\ pd.caller = "page"
        /\ (pd.outcome = "stage_exception" \/ pd.write = "failed")) =>
        msg \notin {"created", "updated"}

\* C11: when loading or splitting raised inside process_docs, the call
\* returns the existing_db object and the processed_files list it was given,
\* no file name was added and no index write was attempted.
C11_StageFailureRollback ==
    (pc = "idle" /\ pd.outcome = "stage_exception" /\ pd.at \in {"loading", "splitting"}) =>
        /\ db = pd.existing_db
        /\ processed = pd.pre_processed
        /\ "index" \notin pd.calls
        /\ pd.write = "none"
        /\ store[ncalls] = {}

C11_Witness ==
    /\ pc = "idle"
    /\ pd.outcome = "stage_exception"
    /\ pd.at = "splitting"
    /\ pd.existing_db # NoIndex
    /\ db = pd.existing_db
    /\ processed # <<>>

NoRepeat(s) == \A i, j \in DOMAIN s : s[i] = s[j] => i = j

\* C17: no file name occurs twice in processed_files, and no file is handed
\* twice to the loaders (and so to the embedder) of a process_docs call.
C17_ProcessedFilesOrderedSet == NoRepeat(processed) /\ NoRepeat(pd.temp_files)

\* C18: whenever the session's RAGChatbot has answered a message, the index
\* it queried is the session's current index, the one most recently returned
\* by process_docs.
C18_ChatbotUsesCurrentIndex ==
    (pc = "idle" /\ chat_ret.called) => chatbot.database = db

Staged ==
    \/ pc \in {"loading", "splitting", "commit"}
    \/ pc = "finally" /\ pd.outcome = "no_new_files"

\* C19: when the staging loop of a process_docs call has run, every uploaded
\* file of which the index holds no chunk (an earlier call did not bring it
\* into the index, or it is new) has been staged for loading, not skipped.
C19_FailedFilesRetried ==
    Staged =>
        \A f \in Range(pd.uploaded_files) :
            ~HasChunks(pd.existing_db, f) => f \in Range(pd.temp_files)

\* C20: every file that validate_file_type accepts and that the batch loader
\* has dispatched went to a loader or to the image describer, never to the
\* unsupported-type branch of process_input_file.
C20_ValidationAgreesWithDispatch ==
    \A f \in Range(pd.temp_files) :
        (f \in DOMAIN pd.res /\ validate_file_type(f)) => pd.res[f] # "unsupported"

\* C28: the session's processed list and the contents of its indexes change
\* only in the commit step of a process_docs call, and the session's index
\* reference only when a call that committed returns; a chat turn
\* (retrieve_enhanced_context, get_sources, generate_response) and clearing
\* the chat history change none of them
C28_ChatReadOnlyCommitSoleWriter ==
    [][/\ (processed' # processed \/ store' # store) => (pc = "commit" /\ pc' = "finally")
       /\ db' # db => (pc = "finally" /\ pd.outcome = "committed")
       /\ (chatbot' # chatbot \/ chat_ret' # chat_ret) =>
              (processed' = processed /\ store' = store /\ db' = db)]_vars

C28_Witness ==
    /\ pc = "idle"
    /\ chatbot.made
    /\ chat_ret.called
    /\ chat_ret.context_chunks > 0
    /\ chat_ret.sources > 0
    /\ Len(chatbot.conversation_history) = 1
    /\ processed # <<>>
    /\ db # NoIndex
    /\ store[db] # {}

(***************************************************************************)
(* TextEmbeddings (utils/embeddings.py).  The endpoint either answers with *)
(* the embedding of the text or the request fails; which one is the        *)
(* environment's choice at every call.  Sleeps are counted in half         *)
(* seconds: time.sleep(0.5 * (attempt + 1)) is a sleep of attempt + 1.     *)
(***************************************************************************)
Texts == {"a", "b"}

TextLists == UNION {[1..n -> Texts] : n \in 0..MaxTexts}

Vec(text) == [kind |-> "vec", of |-> text]

ZeroVector == [kind |-> "zero", of |-> "none"]

\* len(response.json()['embeddings'][0]) is the endpoint's choice; 4096 is the
\* output size of the model the request names, 1024 the size of the fallback
EndpointDims == {ZeroVectorDim, 4096}

\* len() of an element of the list _embed_batch returns
Dimension(v, dim) ==
    CASE v.kind = "vec" -> dim
      [] v.kind = "zero" -> ZeroVectorDim
      [] OTHER -> 0

NoVector == [kind |-> "None", of |-> "none"]

NoResult == [kind |-> "none", of |-> "none", attempt |-> 0]

NewTask(text) ==
    [text |-> text, st |-> "queued", attempt |-> 0, calls |-> 0, fails |-> 0,
     sleeps |-> <<>>, result |-> NoResult]

\* mutant of embed_attempt: the last attempt is tested against MAX_RETRIES, so
\* the loop sleeps after the last attempt and never raises
embed_attempt_off_by_one(t, ok) ==
    IF ok
    THEN [t EXCEPT !.calls = @ + 1, !.st = "done",
                   !.result = [kind |-> "vec", of |-> t.text, attempt |-> t.attempt + 1]]
    ELSE IF t.attempt = MAX_RETRIES
    THEN [t EXCEPT !.calls = @ + 1, !.fails = @ + 1, !.st = "done",
                   !.result = [kind |-> "exc", of |-> t.text, attempt |-> t.attempt + 1]]
    ELSE [t EXCEPT !.calls = @ + 1, !.fails = @ + 1, !.attempt = @ + 1,
                   !.sleeps = Append(@, t.attempt + 1)]

\* one iteration of the retry loop of embed: lines 26-44
embed_attempt(t, ok) ==
    IF ok
    THEN [t EXCEPT !.calls = @ + 1, !.st = "done",
                   !.result = [kind |-> "vec", of |-> t.text, attempt |-> t.attempt + 1]]
    ELSE IF t.attempt = MAX_RETRIES - 1
    THEN [t EXCEPT !.calls = @ + 1, !.fails = @ + 1, !.st = "done",
                   !.result = [kind |-> "exc", of |-> t.text, attempt |-> t.attempt + 1]]
    ELSE [t EXCEPT !.calls = @ + 1, !.fails = @ + 1, !.attempt = @ + 1,
                   !.sleeps = Append(@, t.attempt + 1)]

FirstFree(embs) ==
    CHOOSE i \in DOMAIN embs :
        /\ embs[i].kind = "None"
        /\ \A k \in DOMAIN embs : embs[k].kind = "None" => i <= k

\* mutant of collect_result: results are stored in completion order
collect_result_completion_order(embs, index, result) ==
    IF result.kind = "exc"
    THEN [raised |-> FALSE, embeddings |-> [embs EXCEPT ![FirstFree(embs)] = ZeroVector]]
    ELSE [raised |-> FALSE, embeddings |-> [embs EXCEPT ![FirstFree(embs)] = Vec(result.of)]]

\* mutant of collect_result: future.result() is not guarded, the exception of
\* embed leaves _embed_batch
collect_result_unguarded(embs, index, result) ==
    IF result.kind = "exc"
    THEN [raised |-> TRUE, embeddings |-> embs]
    ELSE [raised |-> FALSE, embeddings |-> [embs EXCEPT ![index] = Vec(result.of)]]

\* the body of the as_completed loop of _embed_batch: lines 59-65
collect_result(embs, index, result) ==
    IF result.kind = "exc"
    THEN [raised |-> FALSE, embeddings |-> [embs EXCEPT ![index] = ZeroVector]]
    ELSE [raised |-> FALSE, embeddings |-> [embs EXCEPT ![index] = Vec(result.of)]]

BatchOf(texts, i, batch_size) == SubSeq(texts, i + 1, Min(i + batch_size, Len(texts)))

Running == {j \in DOMAIN e_tasks : e_tasks[j].st = "running"}

Queued == {j \in DOMAIN e_tasks : e_tasks[j].st = "queued"}

InitEmbed ==
    /\ InitSession
    /\ AuthOff
    /\ QueryOff
    /\ HistoryOff
    /\ SessionsOff
    /\ PagesOff
    /\ FuseOff
    /\ SplitOff
    /\ ImagesOff
    /\ RetryOff
    /\ RetrieveOff
    /\ GenerateOff
    /\ PoolOff
    /\ epc = "call"
    /\ e_texts \in TextLists
    /\ e_batch_size \in 1..MaxBatch
    /\ e_max_workers \in 1..MaxWorkers
    /\ e_start = 0
    /\ e_tasks = <<>>
    /\ e_embeddings = <<>>
    /\ e_all = <<>>
    /\ e_ret = <<>>
    /\ e_failed = {}
    /\ e_dim \in EndpointDims

\* embed_documents, lines 71-74
EmbedDocuments ==
    /\ epc = "call"
    /\ IF e_texts = <<>>
       THEN epc' = "returned"
       ELSE epc' = "loop"
    /\ UNCHANGED <<e_dim, e_texts, e_batch_size, e_max_workers, e_start, e_tasks,
                   e_embeddings, e_all, e_ret, e_failed>>
    /\ UNCHANGED notEmbed

\* embed_documents line 77-79 and _embed_batch lines 48-55: the next batch is
\* cut and all its tasks are submitted to a new pool
SubmitBatch ==
    /\ epc = "loop"
    /\ e_start < Len(e_texts)
    /\ LET batch == BatchOf(e_texts, e_start, e_batch_size)
       IN  /\ e_tasks' = [j \in 1..Len(batch) |-> NewTask(batch[j])]
           /\ e_embeddings' = [j \in 1..Len(batch) |-> NoVector]
    /\ epc' = "collect"
    /\ UNCHANGED <<e_dim, e_texts, e_batch_size, e_max_workers, e_start, e_all, e_ret, e_failed>>
    /\ UNCHANGED notEmbed

\* a pool thread takes the oldest queued task
WorkerStart(j) ==
    /\ epc = "collect"
    /\ j \in Queued
    /\ \A k \in Queued : j <= k
    /\ Cardinality(Running) < e_max_workers
    /\ e_tasks' = [e_tasks EXCEPT ![j].st = "running"]
    /\ UNCHANGED <<epc, e_dim, e_texts, e_batch_size, e_max_workers, e_start, e_embeddings,
                   e_all, e_ret, e_failed>>
    /\ UNCHANGED notEmbed

\* one request of a running embed call; ok is the endpoint's answer
Attempt(j, ok) ==
    /\ epc = "collect"
    /\ j \in Running
    /\ LET t == embed_attempt(e_tasks[j], ok)
       IN  /\ e_tasks' = [e_tasks EXCEPT ![j] = t]
           /\ e_failed' = IF t.result.kind = "exc"
                          THEN e_failed \cup {e_start + j}
                          ELSE e_failed
    /\ UNCHANGED <<epc, e_dim, e_texts, e_batch_size, e_max_workers, e_start, e_embeddings,
                   e_all, e_ret>>
    /\ UNCHANGED notEmbed

\* as_completed yields a finished future, in any order
Collect(j) ==
    /\ epc = "collect"
    /\ j \in DOMAIN e_tasks
    /\ e_tasks[j].st = "done"
    /\ LET r == collect_result(e_embeddings, j, e_tasks[j].result)
       IN  /\ e_embeddings' = r.embeddings
           /\ epc' = IF r.raised THEN "raised" ELSE epc
    /\ e_tasks' = [e_tasks EXCEPT ![j].st = "collected"]
    /\ UNCHANGED <<e_dim, e_texts, e_batch_size, e_max_workers, e_start, e_all, e_ret, e_failed>>
    /\ UNCHANGED notEmbed

\* mutant of all_collected: _embed_batch returns once the results of the
\* tasks that have a thread are in, without waiting for the queued ones
all_collected_started_only(tasks) ==
    \A j \in DOMAIN tasks : tasks[j].st \in {"collected", "queued"}

\* lines 52-65: the as_completed loop ends, and the with block of the pool is
\* left, only when every submitted future has finished and was collected
all_collected(tasks) == \A j \in DOMAIN tasks : tasks[j].st = "collected"

\* _embed_batch returns (line 67); embed_documents extends and advances (80)
BatchReturn ==
    /\ epc = "collect"
    /\ all_collected(e_tasks)
    /\ e_all' = e_all \o e_embeddings
    /\ e_start' = e_start + e_batch_size
    /\ epc' = "loop"
    /\ UNCHANGED <<e_dim, e_texts, e_batch_size, e_max_workers, e_tasks, e_embeddings,
                   e_ret, e_failed>>
    /\ UNCHANGED notEmbed

\* embed_documents line 82
EmbedReturn ==
    /\ epc = "loop"
    /\ e_start >= Len(e_texts)
    /\ e_ret' = e_all
    /\ epc' = "returned"
    /\ UNCHANGED <<e_dim, e_texts, e_batch_size, e_max_workers, e_start, e_tasks,
                   e_embeddings, e_all, e_failed>>
    /\ UNCHANGED notEmbed

NextEmbed ==
    \/ EmbedDocuments
    \/ SubmitBatch
    \/ \E j \in 1..MaxBatch : WorkerStart(j)
    \/ \E j \in 1..MaxBatch, ok \in BOOLEAN : Attempt(j, ok)
    \/ \E j \in 1..MaxBatch : Collect(j)
    \/ BatchReturn
    \/ EmbedReturn

SpecEmbed == InitEmbed /\ [][NextEmbed]_vars

(***************************************************************************)
(* Properties of the batch embedder (SpecEmbed)                            *)
(***************************************************************************)
\* C5: embed_documents returns a list as long as texts whose element i is the
\* embedding of texts[i], or the zero vector when embedding texts[i] failed
\* after its retries.
C5_OrderPreservation ==
    epc = "returned" =>
        /\ Len(e_ret) = Len(e_texts)
        /\ \A i \in 1..Len(e_texts) :
             e_ret[i] = IF i \in e_failed THEN ZeroVector ELSE Vec(e_texts[i])

C5_Witness ==
    /\ epc = "returned"
    /\ Len(e_texts) = 3
    /\ e_batch_size = 2
    /\ e_texts[1] # e_texts[2]
    /\ e_failed = {2}
    /\ e_ret[1] = Vec(e_texts[1])

\* C6: embed calls the endpoint at most MAX_RETRIES times, returns at the first
\* successful call, sleeps 0.5 * k seconds after the k-th failed attempt but
\* not after the last one, and raises the last attempt's exception after
\* exactly MAX_RETRIES failed attempts.
C6_RetryProtocol ==
    \A j \in DOMAIN e_tasks :
        LET t == e_tasks[j]
        IN  /\ t.calls <= MAX_RETRIES
            /\ t.sleeps = [k \in 1..Len(t.sleeps) |-> k]
            /\ t.result.kind = "none" =>
                  /\ t.calls = t.fails
                  /\ Len(t.sleeps) = t.fails
                  /\ t.fails < MAX_RETRIES
            /\ t.result.kind = "vec" =>
                  /\ t.calls = t.fails + 1
                  /\ Len(t.sleeps) = t.fails
                  /\ t.result.attempt = t.calls
            /\ t.result.kind = "exc" =>
                  /\ t.calls = MAX_RETRIES
                  /\ t.fails = MAX_RETRIES
                  /\ Len(t.sleeps) = MAX_RETRIES - 1
                  /\ t.result.attempt = MAX_RETRIES

C6_Witness ==
    \E j, k \in DOMAIN e_tasks :
        /\ e_tasks[j].result.kind = "exc"
        /\ e_tasks[k].result.kind = "vec"
        /\ e_tasks[k].fails = MAX_RETRIES - 1

\* C7: embed_documents never raises; the slot of a text whose embed call
\* raised holds the zero vector and every other text of the same and of the
\* later batches holds an embedding.
C7_EmbeddingFailuresContained ==
    /\ epc # "raised"
    /\ epc = "returned" =>
          /\ Len(e_ret) = Len(e_texts)
          /\ \A i \in 1..Len(e_texts) :
                /\ i \in e_failed => e_ret[i].kind = "zero"
                /\ i \notin e_failed => e_ret[i].kind = "vec"

C7_Witness ==
    /\ epc = "returned"
    /\ Len(e_texts) = 3
    /\ e_batch_size = 2
    /\ e_failed = {1}
    /\ e_ret[2].kind = "vec"
    /\ e_ret[3].kind = "vec"

Unfinished == {j \in DOMAIN e_tasks : e_tasks[j].st \in {"queued", "running"}}

\* C16: during embed_documents at most max_workers embed calls are in flight,
\* the submitted calls are those of one batch of at most batch_size texts,
\* and when the next batch is cut (or the call returns) no call of the
\* previous batch is queued or running.
C16_BoundedBatchSequential ==
    /\ Cardinality(Running) <= e_max_workers
    /\ Len(e_tasks) <= e_batch_size
    /\ epc = "collect" =>
          /\ Len(e_tasks) = Len(BatchOf(e_texts, e_start, e_batch_size))
          /\ \A j \in DOMAIN e_tasks : e_tasks[j].text = e_texts[e_start + j]
    /\ epc \in {"loop", "returned"} => Unfinished = {}

C16_Witness ==
    /\ epc = "collect"
    /\ e_start > 0
    /\ Running # {}
    /\ e_max_workers = 1
    /\ \E j \in DOMAIN e_tasks : e_tasks[j].st = "queued"

\* C22: all vectors that embed_documents returns have the same length: the
\* zero vector of a failed text is as long as the endpoint's vectors
C22_ConstantDimensionality ==
    epc = "returned" =>
        \A i, j \in 1..Len(e_ret) : Dimension(e_ret[i], e_dim) = Dimension(e_ret[j], e_dim)

(***************************************************************************)
(* RAGChatbot.retrieve_context (app/pages/chat.py).  The index holds       *)
(* chunks at a distance to the query; distances are counted in tenths, so  *)
(* the threshold 1.5 is 15.  A search either raises (the query could not   *)
(* be embedded, the index could not be read) or returns the k nearest      *)
(* chunks, nearest first; chunks at equal distance come in any order.      *)
(***************************************************************************)
Chunks == 1..MaxChunks

Distances == {10, 15, 20}

RetrieveKs == {3, 4, 8}

Nearest(index, dist, k) ==
    {s \in [1..Min(k, Cardinality(index)) -> index] :
        /\ \A i, j \in DOMAIN s : s[i] = s[j] => i = j
        /\ \A i, j \in DOMAIN s : i < j => dist[s[i]] <= dist[s[j]]
        /\ \A c \in index \ Range(s) : \A i \in DOMAIN s : dist[s[i]] <= dist[c]}

SearchOutcomes(index, dist, k) ==
    {[st |-> "raised", hits |-> <<>>]}
        \cup {[st |-> "returned", hits |-> s] : s \in Nearest(index, dist, k)}

\* mutant of relevant: a hit at the threshold is kept
relevant_inclusive(score) == score <= ScoreThreshold

\* line 84: if score < 1.5
relevant(score) == score < ScoreThreshold

\* mutant of retrieve_context: no fallback search, the filtered hits are
\* returned as they are
retrieve_context_no_fallback(index, dist, k, scored, fallback) ==
    IF index = {} THEN [ret |-> <<>>, fallback |-> NoSearch]
    ELSE IF scored.st = "raised" THEN [ret |-> <<>>, fallback |-> NoSearch]
    ELSE LET Good(c) == relevant(dist[c])
         IN  [ret |-> SelectSeq(scored.hits, Good), fallback |-> NoSearch]

\* lines 71-95; scored and fallback are what the two searches do when called
retrieve_context(index, dist, k, scored, fallback) ==
    IF index = {} THEN [ret |-> <<>>, fallback |-> NoSearch]
    ELSE IF scored.st = "raised" THEN [ret |-> <<>>, fallback |-> NoSearch]
    ELSE LET Good(c) == relevant(dist[c])
             context_chunks == SelectSeq(scored.hits, Good)
         IN  IF context_chunks # <<>>
             THEN [ret |-> context_chunks, fallback |-> NoSearch]
             ELSE IF fallback.st = "raised"
             THEN [ret |-> <<>>, fallback |-> fallback]
             ELSE [ret |-> fallback.hits, fallback |-> fallback]

InitRetrieve ==
    /\ InitSession
    /\ AuthOff
    /\ QueryOff
    /\ HistoryOff
    /\ SessionsOff
    /\ PagesOff
    /\ FuseOff
    /\ SplitOff
    /\ ImagesOff
    /\ RetryOff
    /\ EmbedOff
    /\ GenerateOff
    /\ PoolOff
    /\ r_pc = "call"
    /\ r_index \in SUBSET Chunks
    /\ r_dist \in [Chunks -> Distances]
    /\ \A c \in Chunks \ r_index : r_dist[c] = 10
    /\ r_k \in RetrieveKs
    /\ r_scored = NoSearch
    /\ r_fallback = NoSearch
    /\ r_ret = <<>>

RetrieveContext(scored, fallback) ==
    /\ r_pc = "call"
    /\ LET r == retrieve_context(r_index, r_dist, r_k, scored, fallback)
       IN  /\ r_ret' = r.ret
           /\ r_fallback' = r.fallback
    /\ r_scored' = IF r_index = {} THEN NoSearch ELSE scored
    /\ r_pc' = "returned"
    /\ UNCHANGED <<r_index, r_dist, r_k>>
    /\ UNCHANGED notRetrieve

NextRetrieve ==
    /\ r_pc = "call"
    /\ \E scored \in SearchOutcomes(r_index, r_dist, r_k),
          fallback \in SearchOutcomes(r_index, r_dist, Min(r_k, FallbackK)) :
           RetrieveContext(scored, fallback)

SpecRetrieve == InitRetrieve /\ [][NextRetrieve]_vars

(***************************************************************************)
(* Properties of retrieve_context (SpecRetrieve)                           *)
(***************************************************************************)
NoHitBelowThreshold ==
    /\ r_scored.st = "returned"
    /\ \A i \in DOMAIN r_scored.hits : r_dist[r_scored.hits[i]] >= ScoreThreshold

C27_RelevanceThreshold ==
    r_pc = "returned" =>
        LET Below(c) == r_dist[c] < ScoreThreshold
            below == SelectSeq(r_scored.hits, Below)
        IN  /\ (\E i \in DOMAIN r_ret : ~Below(r_ret[i])) => below = <<>>
            /\ below = <<>> => Len(r_ret) <= FallbackK
            /\ below # <<>> => r_ret = below

C27_Witness ==
    /\ r_pc = "returned"
    /\ r_ret # <<>>
    /\ \A i \in DOMAIN r_ret : r_dist[r_ret[i]] < ScoreThreshold
    /\ \E i \in DOMAIN r_scored.hits : r_dist[r_scored.hits[i]] = ScoreThreshold
    /\ Len(r_ret) > 1

(***************************************************************************)
(* One generate_response call against the text-generation endpoint         *)
(***************************************************************************)
InitGenerate ==
    /\ InitSession
    /\ AuthOff
    /\ QueryOff
    /\ HistoryOff
    /\ SessionsOff
    /\ PagesOff
    /\ FuseOff
    /\ SplitOff
    /\ ImagesOff
    /\ RetryOff
    /\ EmbedOff
    /\ RetrieveOff
    /\ PoolOff
    /\ g_pc = "call"
    /\ g_reply \in Replies
    /\ g_ret = <<>>

GenerateResponse ==
    /\ g_pc = "call"
    /\ g_ret' = generate_response(g_reply)
    /\ g_pc' = "returned"
    /\ UNCHANGED g_reply
    /\ UNCHANGED notGenerate

NextGenerate == GenerateResponse

SpecGenerate == InitGenerate /\ [][NextGenerate]_vars

(***************************************************************************)
(* Properties of generate_response (SpecGenerate)                          *)
(***************************************************************************)
\* C13: generate_response returns a string in every case: on HTTP 200 the
\* response text of a well-formed body, on another status a string holding
\* the status code, on a timeout the literal timeout message, and on any
\* other failure, a malformed 200 body included, an error message holding
\* the exception text.
C13_GenerationNeverRaises ==
    g_pc = "returned" =>
        /\ g_ret.type = "str"
        /\ (g_reply.kind = "response" /\ g_reply.status # 200) =>
              ToString(g_reply.status) \in Range(g_ret.parts)
        /\ g_reply.kind = "timeout" =>
              g_ret.parts = <<"Error: Request timed out. Please try again.">>
        /\ g_reply.kind = "error" => g_reply.exc \in Range(g_ret.parts)
        /\ (g_reply.kind = "response" /\ g_reply.status = 200) =>
              IF g_reply.body.json = "object" /\ g_reply.body.has
                   /\ g_reply.body.response.type = "str"
              THEN g_ret = g_reply.body.response
              ELSE Head(g_ret.parts) = "Error generating response: "

(***************************************************************************)
(* The requests of one ingestion call.  process_docs runs three pools one  *)
(* after the other: get_images_desc_batch (one get_image_desc request per  *)
(* image), the loaders of process_input_files_batch (local parsing) and    *)
(* the embed calls of the index write.  A request is sent with a timeout   *)
(* or with none; the endpoint answers, fails or stays silent.  A request   *)
(* ends when the endpoint answers or fails, or when its timeout fires.     *)
(***************************************************************************)
FileKinds == {"image", "document"}

PoolFileLists == UNION {[1..n -> FileKinds] : n \in 1..MaxPoolFiles}

EndpointBehaviours == {"answers", "fails", "silent"}

PoolTask(kind, timeout) ==
    [kind |-> kind, st |-> "queued", endpoint |-> "none", timeout |-> timeout,
     attempt |-> 0, result |-> "none"]

\* the timeout argument of the request each kind of task makes
TimeoutOf(kind) ==
    IF kind = "embed" THEN REQUEST_TIMEOUT ELSE NoTimeout

PoolSlots(stage, n) ==
    IF stage = "images" THEN Min(ImagePoolCap, n)
    ELSE Min(get_optimal_workers_mixed, n)

TasksOf(kind, n) == [j \in 1..n |-> PoolTask(kind, TimeoutOf(kind))]

CountKind(files, kind) == Cardinality({i \in DOMAIN files : files[i] = kind})

Produced(tasks) == Cardinality({j \in DOMAIN tasks : tasks[j].result \in {"ok", "placeholder"}})

InFlight == {j \in DOMAIN h_tasks : h_tasks[j].st = "waiting"}

StageKind(stage) ==
    CASE stage = "images" -> "image"
      [] stage = "loaders" -> "loader"
      [] OTHER -> "embed"

Submitted(stage) == Cardinality({j \in DOMAIN h_tasks : h_tasks[j].kind = StageKind(stage)})

InitPool ==
    /\ InitSession
    /\ AuthOff
    /\ QueryOff
    /\ HistoryOff
    /\ SessionsOff
    /\ PagesOff
    /\ FuseOff
    /\ SplitOff
    /\ ImagesOff
    /\ RetryOff
    /\ EmbedOff
    /\ RetrieveOff
    /\ GenerateOff
    /\ h_pc = "call"
    /\ h_files \in PoolFileLists
    /\ h_tasks = <<>>

\* process_input_files_batch is entered: the image pool gets its tasks
StartImages ==
    /\ h_pc = "call"
    /\ h_tasks' = TasksOf("image", CountKind(h_files, "image"))
    /\ h_pc' = "images"
    /\ UNCHANGED h_files
    /\ UNCHANGED notPool

\* a pool thread takes a queued task and sends its request (a loader parses
\* a local file: it returns or raises, it does not wait for an endpoint)
SendRequest(j, behaviour) ==
    /\ h_pc \in {"images", "loaders", "embedding"}
    /\ j \in DOMAIN h_tasks
    /\ h_tasks[j].st = "queued"
    /\ \A k \in DOMAIN h_tasks : h_tasks[k].st = "queued" => j <= k
    /\ Cardinality(InFlight) < PoolSlots(h_pc, Submitted(h_pc))
    /\ h_tasks[j].kind = "loader" => behaviour # "silent"
    /\ h_tasks' = [h_tasks EXCEPT ![j].st = "waiting", ![j].endpoint = behaviour]
    /\ UNCHANGED <<h_pc, h_files>>
    /\ UNCHANGED notPool

\* the request of task j ends: with the answer, with an error, or because
\* its timeout fired; embed retries a failed request up to MAX_RETRIES times
RequestEnds(j) ==
    /\ h_pc \in {"images", "loaders", "embedding"}
    /\ j \in InFlight
    /\ LET t == h_tasks[j]
       IN  /\ t.endpoint = "silent" => t.timeout # NoTimeout
           /\ h_tasks' =
                IF t.endpoint = "answers"
                THEN [h_tasks EXCEPT ![j].st = "done", ![j].result = "ok"]
                ELSE IF t.kind = "embed" /\ t.attempt < MAX_RETRIES - 1
                THEN [h_tasks EXCEPT ![j].st = "queued", ![j].attempt = @ + 1,
                                     ![j].endpoint = "none"]
                ELSE [h_tasks EXCEPT ![j].st = "done",
                                     ![j].result = CASE t.kind = "image" -> "placeholder"
                                                     [] t.kind = "embed" -> "zero"
                                                     [] OTHER -> "skipped"]
    /\ UNCHANGED <<h_pc, h_files>>
    /\ UNCHANGED notPool

\* every future of the stage has been collected: the next pool starts, or
\* process_docs returns
StageDone ==
    /\ h_pc \in {"images", "loaders", "embedding"}
    /\ \A j \in DOMAIN h_tasks : h_tasks[j].st = "done"
    /\ IF h_pc = "images"
       THEN /\ h_pc' = "loaders"
            /\ h_tasks' = h_tasks \o TasksOf("loader", CountKind(h_files, "document"))
       ELSE IF h_pc = "loaders"
       THEN IF Produced(h_tasks) = 0
            THEN h_pc' = "returned" /\ h_tasks' = <<>>
            ELSE h_pc' = "embedding" /\ h_tasks' = TasksOf("embed", Produced(h_tasks))
       ELSE h_pc' = "returned" /\ UNCHANGED h_tasks
    /\ UNCHANGED h_files
    /\ UNCHANGED notPool

NextPool ==
    \/ StartImages
    \/ \E j \in 1..MaxPoolFiles, behaviour \in EndpointBehaviours : SendRequest(j, behaviour)
    \/ \E j \in 1..MaxPoolFiles : RequestEnds(j)
    \/ StageDone

SpecPool == InitPool /\ [][NextPool]_vars

(***************************************************************************)
(* Properties of the ingestion call's requests (SpecPool)                  *)
(***************************************************************************)
\* C15: every ingestion call returns also when an endpoint never answers:
\* every request in flight that the endpoint leaves unanswered carries a
\* timeout, and as long as the call has not returned it can take a step.
C15_IngestionReturns ==
    /\ \A j \in InFlight :
         h_tasks[j].endpoint = "silent" => h_tasks[j].timeout # NoTimeout
    /\ h_pc = "returned" \/ ENABLED NextPool

(***************************************************************************)
(* RAGConfig.update_from_dict and embed (SpecConfig).  MAX_RETRIES is a    *)
(* class attribute that update_from_dict overwrites with whatever value    *)
(* it is given; embed reads it when its loop starts (range) and again at   *)
(* every failed request (attempt == MAX_RETRIES - 1).                      *)
(***************************************************************************)
ConfigKeys == {"max_retries", "no_such_setting"}

ConfigValues == 0..MaxRetriesCfg

\* update_from_dict, lines 50-52, for one key of the dictionary
update_from_dict(max_retries, key, value) ==
    IF key = "max_retries" THEN value ELSE max_retries

\* embed, lines 26-44: one iteration of "for attempt in range(n)", or, when
\* the range is used up, the end of the function body, which returns None
embed(t, ok, n, max_retries) ==
    IF t.attempt >= n
    THEN [t EXCEPT !.st = "done",
                   !.result = [kind |-> "None", of |-> t.text, attempt |-> t.attempt]]
    ELSE IF ok
    THEN [t EXCEPT !.calls = @ + 1, !.st = "done",
                   !.result = [kind |-> "vec", of |-> t.text, attempt |-> t.attempt + 1]]
    ELSE IF t.attempt = max_retries - 1
    THEN [t EXCEPT !.calls = @ + 1, !.fails = @ + 1, !.st = "done",
                   !.result = [kind |-> "exc", of |-> t.text, attempt |-> t.attempt + 1]]
    ELSE [t EXCEPT !.calls = @ + 1, !.fails = @ + 1, !.attempt = @ + 1,
                   !.sleeps = Append(@, t.attempt + 1)]

InitConfig ==
    /\ InitSession
    /\ AuthOff
    /\ QueryOff
    /\ HistoryOff
    /\ SessionsOff
    /\ PagesOff
    /\ FuseOff
    /\ SplitOff
    /\ ImagesOff
    /\ EmbedOff
    /\ RetrieveOff
    /\ GenerateOff
    /\ PoolOff
    /\ k_pc = "idle"
    /\ k_max_retries = MAX_RETRIES
    /\ k_range = 0
    /\ k_task = <<>>

\* RAGConfig.update_from_dict({key: value}), at any moment
UpdateFromDict(key, value) ==
    /\ k_pc # "off"
    /\ k_max_retries' = update_from_dict(k_max_retries, key, value)
    /\ UNCHANGED <<k_pc, k_range, k_task>>
    /\ UNCHANGED notRetry

\* embed(string) is entered: line 26 evaluates range(RAGConfig.MAX_RETRIES)
EmbedCall(string) ==
    /\ k_pc \in {"idle", "returned"}
    /\ k_task' = [NewTask(string) EXCEPT !.st = "running"]
    /\ k_range' = k_max_retries
    /\ k_pc' = "loop"
    /\ UNCHANGED k_max_retries
    /\ UNCHANGED notRetry

\* one request of the loop; ok is the endpoint's answer
EmbedRequest(ok) ==
    /\ k_pc = "loop"
    /\ k_task.attempt < k_range
    /\ k_task' = embed(k_task, ok, k_range, k_max_retries)
    /\ k_pc' = IF k_task'.st = "done" THEN "returned" ELSE "loop"
    /\ UNCHANGED <<k_max_retries, k_range>>
    /\ UNCHANGED notRetry

\* the range is used up: the for statement ends and so does the function
EmbedLoopEnds ==
    /\ k_pc = "loop"
    /\ k_task.attempt >= k_range
    /\ k_task' = embed(k_task, FALSE, k_range, k_max_retries)
    /\ k_pc' = "returned"
    /\ UNCHANGED <<k_max_retries, k_range>>
    /\ UNCHANGED notRetry

NextConfig ==
    \/ \E key \in ConfigKeys, value \in ConfigValues : UpdateFromDict(key, value)
    \/ \E string \in Texts : EmbedCall(string)
    \/ \E ok \in BOOLEAN : EmbedRequest(ok)
    \/ EmbedLoopEnds

SpecConfig == InitConfig /\ [][NextConfig]_vars

\* C21: whatever value MAX_RETRIES was given, a call of embed that has
\* returned either returned the endpoint's embedding of its text or raised;
\* it never returned None
C21_EmbedReturnsVectorOrRaises ==
    k_pc = "returned" =>
        \/ k_task.result.kind = "exc"
        \/ k_task.result.kind = "vec" /\ k_task.result.of = k_task.text

(***************************************************************************)
(* get_images_desc_batch (SpecImages): the call is given a list of image   *)
(* paths; every get_image_desc call succeeds or raises, and as_completed   *)
(* yields the futures in any order.                                        *)
(***************************************************************************)
ImagePaths == {[stem |-> "c", ext |-> "png"], [stem |-> "e", ext |-> "jpg"]}

ImagePathLists == UNION {[1..n -> ImagePaths] : n \in 0..MaxImages}

InitImages ==
    /\ InitSession
    /\ AuthOff
    /\ QueryOff
    /\ HistoryOff
    /\ SessionsOff
    /\ PagesOff
    /\ FuseOff
    /\ SplitOff
    /\ EmbedOff
    /\ RetrieveOff
    /\ GenerateOff
    /\ PoolOff
    /\ RetryOff
    /\ i_pc = "call"
    /\ i_paths \in ImagePathLists
    /\ i_res \in [ImagePaths -> {"raise", "one"}]
    /\ i_ord \in Perms(Len(i_paths))
    /\ i_ret = <<>>

GetImagesDescBatch ==
    /\ i_pc = "call"
    /\ i_ret' = get_images_desc_batch(i_paths, i_res, i_ord)
    /\ i_pc' = "returned"
    /\ UNCHANGED <<i_paths, i_res, i_ord>>
    /\ UNCHANGED notImages

NextImages == GetImagesDescBatch

SpecImages == InitImages /\ [][NextImages]_vars

Occurrences(s, x) == Cardinality({i \in DOMAIN s : s[i] = x})

\* C23: get_images_desc_batch returns exactly one document per input path:
\* the description when get_image_desc succeeded, a placeholder naming the
\* path when it raised; a failed image takes no other image's document away
C23_ImageBatchFailSoftComplete ==
    i_pc = "returned" =>
        /\ Len(i_ret) = Len(i_paths)
        /\ \A p \in ImagePaths :
              Occurrences(i_ret, Doc(p, 1, IF i_res[p] = "raise" THEN "placeholder" ELSE "desc"))
                  = Occurrences(i_paths, p)

C23_Witness ==
    /\ i_pc = "returned"
    /\ Len(i_paths) = MaxImages
    /\ \E a, b \in Range(i_paths) : i_res[a] = "raise" /\ i_res[b] = "one"
    /\ i_ord[1] # 1

(***************************************************************************)
(* get_splits (SpecSplit).  Documents are numbered in list order.  The     *)
(* splitter cuts every document on its own, into s_chunks[d] chunks that   *)
(* carry the document's metadata; a document in s_poison makes             *)
(* split_documents raise.                                                  *)
(***************************************************************************)
DocCounts == {0} \cup (SequentialSplitLimit..MaxDocs)

SplitWorkers == 0..MaxSplitWorkers

ChunkCounts == {[d \in 1..MaxDocs |-> 1], [d \in 1..MaxDocs |-> d % 3]}

PoisonChoices(n) == {{}} \cup {{d} : d \in {1, n} \cap (1..n)}

\* RecursiveCharacterTextSplitter.split_documents: the chunks of the
\* documents, document after document
split_documents(documents, chunks) ==
    Flatten([i \in 1..Len(documents) |->
               [p \in 1..chunks[documents[i]] |-> [doc |-> documents[i], part |-> p]]])

\* line 94
split_workers(docs, max_workers) ==
    IF max_workers # 0 THEN max_workers
    ELSE Min(SplitWorkersCap, Len(docs) \div SplitDocsPerWorker)

\* line 95
split_batch_size(docs, max_workers) ==
    Max(1, Len(docs) \div split_workers(docs, max_workers))

\* mutant of split_batches: the slices start batch_size + 1 apart
split_batches_gap(docs, batch_size) ==
    LET nb == (Len(docs) + batch_size) \div (batch_size + 1)
    IN  [b \in 1..nb |->
           SubSeq(docs, (b - 1) * (batch_size + 1) + 1,
                  Min((b - 1) * (batch_size + 1) + batch_size, Len(docs)))]

\* line 101: [docs[i:i + batch_size] for i in range(0, len(docs), batch_size)]
split_batches(docs, batch_size) ==
    LET nb == (Len(docs) + batch_size - 1) \div batch_size
    IN  [b \in 1..nb |->
           SubSeq(docs, (b - 1) * batch_size + 1, Min(b * batch_size, Len(docs)))]

\* mutant of store_batch_result: results are kept in completion order
store_batch_result_completion_order(batch_results, done, batch_idx, result) ==
    [batch_results EXCEPT ![Cardinality(done) + 1] = result]

\* lines 111-117: batch_results[batch_idx] = future.result(), or [] on error
store_batch_result(batch_results, done, batch_idx, result) ==
    [batch_results EXCEPT ![batch_idx] = result]

InitSplit ==
    /\ InitSession
    /\ AuthOff
    /\ QueryOff
    /\ HistoryOff
    /\ SessionsOff
    /\ PagesOff
    /\ FuseOff
    /\ EmbedOff
    /\ RetrieveOff
    /\ GenerateOff
    /\ PoolOff
    /\ RetryOff
    /\ ImagesOff
    /\ s_pc = "call"
    /\ \E n \in DocCounts :
          /\ s_docs = [i \in 1..n |-> i]
          /\ s_poison \in PoisonChoices(n)
    /\ s_max_workers \in SplitWorkers
    /\ s_chunks \in ChunkCounts
    /\ s_batches = <<>>
    /\ s_done = {}
    /\ s_batch_results = <<>>
    /\ s_unordered = FALSE
    /\ s_ret = <<>>

\* lines 81-82 and 90-91: no documents, or the sequential path
SplitSequential ==
    /\ s_pc = "call"
    /\ Len(s_docs) <= SequentialSplitLimit
    /\ IF s_docs # <<>> /\ Range(s_docs) \cap s_poison # {}
       THEN s_pc' = "raised" /\ s_ret' = <<>>
       ELSE s_pc' = "returned" /\ s_ret' = split_documents(s_docs, s_chunks)
    /\ UNCHANGED <<s_docs, s_max_workers, s_chunks, s_poison, s_batches, s_done,
                   s_batch_results, s_unordered>>
    /\ UNCHANGED notSplit

\* lines 94-110: the batches are cut and submitted to the pool
SplitSubmit ==
    /\ s_pc = "call"
    /\ Len(s_docs) > SequentialSplitLimit
    /\ s_batches' = split_batches(s_docs, split_batch_size(s_docs, s_max_workers))
    /\ s_batch_results' = [b \in DOMAIN s_batches' |-> <<>>]
    /\ s_pc' = "collect"
    /\ UNCHANGED <<s_docs, s_max_workers, s_chunks, s_poison, s_done, s_unordered, s_ret>>
    /\ UNCHANGED notSplit

\* lines 111-117: as_completed yields the future of batch batch_idx
SplitCollect(batch_idx) ==
    /\ s_pc = "collect"
    /\ batch_idx \in DOMAIN s_batches \ s_done
    /\ LET result == IF Range(s_batches[batch_idx]) \cap s_poison # {}
                     THEN <<>>
                     ELSE split_documents(s_batches[batch_idx], s_chunks)
       IN  s_batch_results' = store_batch_result(s_batch_results, s_done, batch_idx, result)
    /\ s_done' = s_done \cup {batch_idx}
    /\ s_unordered' = (s_unordered \/ \E b \in DOMAIN s_batches \ s_done : b < batch_idx)
    /\ UNCHANGED <<s_pc, s_docs, s_max_workers, s_chunks, s_poison, s_batches, s_ret>>
    /\ UNCHANGED notSplit

\* lines 119-124: the results are flattened in batch order
SplitReturn ==
    /\ s_pc = "collect"
    /\ s_done = DOMAIN s_batches
    /\ s_ret' = Flatten(s_batch_results)
    /\ s_pc' = "returned"
    /\ UNCHANGED <<s_docs, s_max_workers, s_chunks, s_poison, s_batches, s_done,
                   s_batch_results, s_unordered>>
    /\ UNCHANGED notSplit

NextSplit ==
    \/ SplitSequential
    \/ SplitSubmit
    \/ \E batch_idx \in 1..MaxDocs : SplitCollect(batch_idx)
    \/ SplitReturn

SpecSplit == InitSplit /\ [][NextSplit]_vars

Parallel == Len(s_docs) > SequentialSplitLimit

\* C24: for more than 10 documents and no failing batch, get_splits returns
\* the chunk sequence that splitting the whole list sequentially gives,
\* whatever the order in which the batches complete
C24_ParallelEqualsSequential ==
    (s_pc = "returned" /\ Parallel /\ s_poison = {}) =>
        s_ret = split_documents(s_docs, s_chunks)

C24_Witness ==
    /\ s_pc = "returned"
    /\ Parallel
    /\ s_poison = {}
    /\ s_unordered
    /\ Len(s_batches) > 2
    /\ s_chunks[2] # s_chunks[1]

\* C25 as stated: for more than 10 documents the documents are partitioned
\* into exactly max_workers contiguous batches that together contain every
\* document exactly once
C25_ExactlyMaxWorkersBatches ==
    (s_pc \in {"collect", "returned"} /\ Parallel) =>
        /\ Len(s_batches) = split_workers(s_docs, s_max_workers)
        /\ Flatten(s_batches) = s_docs

\* C25 amended: the batches are contiguous slices of batch_size =
\* max(1, len(docs) // max_workers) documents, the last one possibly shorter,
\* that together contain every document exactly once, in order; there are
\* ceil(len(docs) / batch_size) of them, which is at least
\* min(max_workers, len(docs)) and can be more than max_workers
C25_ContiguousBatchPartition ==
    (s_pc \in {"collect", "returned"} /\ Parallel) =>
        LET batch_size == split_batch_size(s_docs, s_max_workers)
            nb == Len(s_batches)
        IN  /\ Flatten(s_batches) = s_docs
            /\ \A b \in 1..(nb - 1) : Len(s_batches[b]) = batch_size
            /\ Len(s_batches[nb]) \in 1..batch_size
            /\ (nb - 1) * batch_size < Len(s_docs)
            /\ nb >= Min(split_workers(s_docs, s_max_workers), Len(s_docs))

C25_Witness ==
    /\ s_pc = "collect"
    /\ Parallel
    /\ Len(s_batches) > split_workers(s_docs, s_max_workers)
    /\ Len(s_batches[Len(s_batches)]) < split_batch_size(s_docs, s_max_workers)

(***************************************************************************)
(* retrieve_enhanced_context (SpecFuse) and enhance_query (SpecQuery).  A  *)
(* string is the sequence of its pieces: a piece is a run of letters or    *)
(* one blank, and pieces that follow each other without a blank are one    *)
(* word ("what","x" is the word whatx).  A chunk text is a letter;         *)
(* different chunks can have equal texts.  retrieve_context returns at     *)
(* most as many texts as it was asked for.                                 *)
(***************************************************************************)
Pieces == {"what", "How", "explain", "Describe", "x", " "}

Queries == UNION {[1..n -> Pieces] : n \in 1..MaxQueryLen}

FuseQueries ==
    { <<"x">>, <<"x", " ", "x">>, <<"what">>, <<"what", " ", "x">>,
      <<"explain">>, <<"x", " ", "explain">>, <<"what", "explain">>,
      <<"what", " ", "explain">> }

QuestionWords == {"what", "how", "why", "when", "where", "who"}

\* mutant of lower: the string is left in its own case
lower_as_is(string) == string

\* str.lower
lower(string) ==
    [i \in DOMAIN string |->
        CASE string[i] = "How" -> "how"
          [] string[i] = "Describe" -> "describe"
          [] OTHER -> string[i]]

\* str.startswith with a tuple of prefixes, none of which ends inside a piece
startswith(string, prefixes) == string # <<>> /\ string[1] \in prefixes

\* str.split(): the words, the runs of pieces between blanks
RECURSIVE split(_)
split(string) ==
    IF string = <<>> THEN <<>>
    ELSE IF Head(string) = " " THEN split(Tail(string))
    ELSE LET n == IF \E i \in DOMAIN string : string[i] = " "
                  THEN (CHOOSE i \in DOMAIN string :
                            /\ string[i] = " "
                            /\ \A j \in 1..(i - 1) : string[j] # " ") - 1
                  ELSE Len(string)
         IN  <<SubSeq(string, 1, n)>> \o split(SubSeq(string, n + 1, Len(string)))

\* ' '.join(words)
RECURSIVE join(_)
join(words) ==
    IF words = <<>> THEN <<>>
    ELSE IF Len(words) = 1 THEN words[1]
    ELSE words[1] \o <<" ">> \o join(Tail(words))

\* str.replace(piece, '')
replace(string, piece) == SelectSeq(string, LAMBDA p : p # piece)

\* str.strip()
RECURSIVE strip(_)
strip(string) ==
    IF string = <<>> THEN <<>>
    ELSE IF Head(string) = " " THEN strip(Tail(string))
    ELSE IF string[Len(string)] = " " THEN strip(SubSeq(string, 1, Len(string) - 1))
    ELSE string

ChunkTexts == {"x", "y", "z"}

ContextLists(k) == UNION {[1..n -> ChunkTexts] : n \in 0..k}

\* lines 117-136
enhance_query(query) ==
    LET query_lower == lower(query)
        key_terms == IF split(query) = <<>> THEN <<>> ELSE Tail(split(query))
        topic == strip(replace(replace(query_lower, "explain"), "describe"))
    IN  <<query>>
        \o (IF startswith(query_lower, QuestionWords) /\ key_terms # <<>>
            THEN <<join(key_terms)>> ELSE <<>>)
        \o (IF \E i \in DOMAIN query_lower : query_lower[i] \in {"explain", "describe"}
            THEN <<topic>> ELSE <<>>)

\* line 147: k // len(enhanced_queries) + 1
variant_k(k, enhanced_queries) == (k \div Len(enhanced_queries)) + 1

\* mutant of unique_contexts: of equal texts the last one is kept
RECURSIVE unique_contexts_keep_last(_, _)
unique_contexts_keep_last(all_contexts, seen) ==
    IF all_contexts = <<>> THEN <<>>
    ELSE IF Head(all_contexts) \in Range(Tail(all_contexts))
    THEN unique_contexts_keep_last(Tail(all_contexts), seen)
    ELSE <<Head(all_contexts)>> \o unique_contexts_keep_last(Tail(all_contexts), seen)

\* lines 150-156: the loop over all_contexts with the set seen
RECURSIVE unique_contexts(_, _)
unique_contexts(all_contexts, seen) ==
    IF all_contexts = <<>> THEN <<>>
    ELSE IF Head(all_contexts) \in seen
    THEN unique_contexts(Tail(all_contexts), seen)
    ELSE <<Head(all_contexts)>>
         \o unique_contexts(Tail(all_contexts), seen \cup {Head(all_contexts)})

\* lines 143-158, given the lists retrieve_context returned variant by variant
enhanced_context(contexts, k) ==
    LET all_contexts == Flatten(contexts)
        unique == unique_contexts(all_contexts, {})
    IN  SubSeq(unique, 1, Min(k, Len(unique)))

InitFuse ==
    /\ InitSession
    /\ AuthOff
    /\ QueryOff
    /\ HistoryOff
    /\ SessionsOff
    /\ PagesOff
    /\ EmbedOff
    /\ RetrieveOff
    /\ GenerateOff
    /\ PoolOff
    /\ RetryOff
    /\ ImagesOff
    /\ SplitOff
    /\ f_pc = "call"
    /\ f_query \in FuseQueries
    /\ f_k \in 0..MaxFuseK
    /\ f_contexts \in [1..Len(enhance_query(f_query)) ->
                         ContextLists(variant_k(f_k, enhance_query(f_query)))]
    /\ f_ret = <<>>

RetrieveEnhancedContext ==
    /\ f_pc = "call"
    /\ f_ret' = enhanced_context(f_contexts, f_k)
    /\ f_pc' = "returned"
    /\ UNCHANGED <<f_query, f_k, f_contexts>>
    /\ UNCHANGED notFuse

NextFuse == RetrieveEnhancedContext

SpecFuse == InitFuse /\ [][NextFuse]_vars

FirstSeen(s, x) == CHOOSE i \in DOMAIN s : s[i] = x /\ \A j \in DOMAIN s : s[j] = x => i <= j

\* C26: retrieve_enhanced_context(query, k) returns at most k chunk texts, no
\* two of them equal, in the order of their first occurrence in the
\* concatenation of the variants' hits; they are the first min(k, number of
\* distinct texts) texts of that order
C26_ContextFusion ==
    f_pc = "returned" =>
        LET all_contexts == Flatten(f_contexts)
        IN  /\ Len(f_ret) <= f_k
            /\ NoRepeat(f_ret)
            /\ Range(f_ret) \subseteq Range(all_contexts)
            /\ \A i, j \in DOMAIN f_ret :
                  i < j => FirstSeen(all_contexts, f_ret[i]) < FirstSeen(all_contexts, f_ret[j])
            /\ \A x \in Range(all_contexts) \ Range(f_ret) :
                  /\ Len(f_ret) = f_k
                  /\ \A i \in DOMAIN f_ret :
                        FirstSeen(all_contexts, f_ret[i]) < FirstSeen(all_contexts, x)

C26_Witness ==
    /\ f_pc = "returned"
    /\ Len(enhance_query(f_query)) = 2
    /\ f_k = 2
    /\ f_contexts[1] = <<"y", "y">>
    /\ f_contexts[2] = <<"x", "z">>
    /\ f_ret = <<"y", "x">>

(***************************************************************************)
(* Page runs (SpecPages).  Streamlit runs the script of the current page   *)
(* from the top at every interaction: init_auth_session,                   *)
(* initialize_session_state, the authentication check, the session-id      *)
(* assignment, then the page body.  md5(f"{user_id}_{session_token}")      *)
(* [:12] is a value that depends on the two and nothing else; uuid1() is   *)
(* a new value at every call; a session token is new at every login.       *)
(***************************************************************************)
UserIds == {1, 2}

NoSessionId == <<"absent">>

Uuid(n) == <<"uuid1", n, 0>>

Md5(user_id, session_token) == <<"md5", user_id, session_token>>

LoggedOut ==
    [authenticated |-> FALSE, user_id |-> 0, session_token |-> 0,
     session_id |-> NoSessionId, page |-> "upload"]

\* every key the program stores in st.session_state
SessionStateKeys ==
    {"authenticated", "user_info", "auth_manager", "registration_step",
     "pending_email", "pending_password", "password_reset_step", "reset_email",
     "session_token", "login_time", "session-id", "docs", "processed", "db",
     "page", "chatbot", "chat_history", "auto_question"}

\* session_state.py lines 5-6: the key tested is 'session-state', which nothing
\* ever sets, so the branch is taken at every run
initialize_session_state(session, uuid) ==
    IF "session-state" \notin SessionStateKeys
    THEN [session EXCEPT !.session_id = uuid]
    ELSE session

\* mutant of consistent_session_id: the id initialize_session_state left in
\* the session state is kept
consistent_session_id_kept(session) == session.session_id

\* app.py lines 50-56 and chat.py lines 53-59
consistent_session_id(session) == Md5(session.user_id, session.session_token)

InitPages ==
    /\ InitSession
    /\ AuthOff
    /\ QueryOff
    /\ HistoryOff
    /\ SessionsOff
    /\ EmbedOff
    /\ RetrieveOff
    /\ GenerateOff
    /\ PoolOff
    /\ RetryOff
    /\ ImagesOff
    /\ SplitOff
    /\ FuseOff
    /\ x_pc = "main"
    /\ x_session = LoggedOut
    /\ x_uuids = 0
    /\ x_logins = 0
    /\ x_used = {}
    /\ x_calls = 0

\* main.py lines 109-126: login_user issues a new token; switch to pages/app.py
Login(user_id) ==
    /\ x_pc = "main"
    /\ x_logins < MaxLogins
    /\ x_logins' = x_logins + 1
    /\ x_session' = [x_session EXCEPT !.authenticated = TRUE, !.user_id = user_id,
                                      !.session_token = x_logins + 1]
    /\ x_used' = {}
    /\ x_calls' = 0
    /\ x_pc' = "rerun"
    /\ UNCHANGED x_uuids
    /\ UNCHANGED notPages

\* app.py / chat.py lines 32-43: a run of the page script starts
PageRunStarts ==
    /\ x_pc = "rerun"
    /\ x_uuids < MaxPageRuns
    /\ x_uuids' = x_uuids + 1
    /\ x_session' = initialize_session_state(x_session, Uuid(x_uuids + 1))
    /\ x_pc' = "derive"
    /\ UNCHANGED <<x_logins, x_used, x_calls>>
    /\ UNCHANGED notPages

\* app.py lines 49-57
AssignSessionId ==
    /\ x_pc = "derive"
    /\ x_session' = [x_session EXCEPT !.session_id = consistent_session_id(x_session)]
    /\ x_pc' = "body"
    /\ UNCHANGED <<x_uuids, x_logins, x_used, x_calls>>
    /\ UNCHANGED notPages

\* upload_page: line 78 reads the session id; with the button pressed,
\* process_docs is called with it (211-213); the user may go to the chat page
UploadPageRun(start, page) ==
    /\ x_pc = "body"
    /\ x_session.page = "upload"
    /\ IF start
       THEN x_used' = x_used \cup {x_session.session_id} /\ x_calls' = x_calls + 1
       ELSE UNCHANGED <<x_used, x_calls>>
    /\ x_session' = [x_session EXCEPT !.page = page]
    /\ x_pc' = "rerun"
    /\ UNCHANGED <<x_uuids, x_logins>>
    /\ UNCHANGED notPages

\* chat_page: importing pages.chat runs chat.py lines 39-60, which end with
\* the same assignment; the user may go back to the upload page
ChatPageRun(page) ==
    /\ x_pc = "body"
    /\ x_session.page = "chat"
    /\ x_session' = [x_session EXCEPT !.session_id = consistent_session_id(x_session),
                                      !.page = page]
    /\ x_pc' = "rerun"
    /\ UNCHANGED <<x_uuids, x_logins, x_used, x_calls>>
    /\ UNCHANGED notPages

\* the logout button of either page: every key of the session state is deleted
Logout ==
    /\ x_pc = "body"
    /\ x_session' = LoggedOut
    /\ x_used' = {}
    /\ x_calls' = 0
    /\ x_pc' = "main"
    /\ UNCHANGED <<x_uuids, x_logins>>
    /\ UNCHANGED notPages

NextPages ==
    \/ \E user_id \in UserIds : Login(user_id)
    \/ PageRunStarts
    \/ AssignSessionId
    \/ \E start \in BOOLEAN, page \in {"upload", "chat"} : UploadPageRun(start, page)
    \/ \E page \in {"upload", "chat"} : ChatPageRun(page)
    \/ Logout

SpecPages == InitPages /\ [][NextPages]_vars

\* C30: within one login every process_docs call is given the same session
\* id, and that id is the value derived from the user id and the session
\* token, whatever pages were run in between
C30_StableSessionId ==
    x_used \subseteq {Md5(x_session.user_id, x_session.session_token)}

C30_Witness ==
    /\ x_calls >= 2
    /\ x_uuids >= 3
    /\ x_session.page = "chat"
    /\ x_logins = MaxLogins
    /\ x_used # {}

(***************************************************************************)
(* Two sessions (SpecSessions).  Every session has its own session id,     *)
(* processed list, index object and chatbot; Chroma.from_documents is      *)
(* taken by its contract, a store of its own holding the given documents.  *)
(* The staging path of a file is f"data/{session_id}/{uploaded_file.name}";*)
(* a name is a directory part, "." or "../<id>", and a base name.  The     *)
(* bytes of an upload are identified by the session that uploaded them.    *)
(***************************************************************************)
SessionIds == {"s1", "s2"}

UploadNames ==
    [parent : {"."} \cup SessionIds, base : {"a.pdf"}]

NoCall == [name |-> "none", temp_files |-> {}, all_docs |-> {}]

NoDir == [exists |-> FALSE, bytes |-> "none"]

\* the directory that f"data/{session_id}/{name}" names: lines 185-186
staging_target(session_id, name) ==
    IF name.parent = "." THEN session_id ELSE name.parent

InitSessions ==
    /\ InitSession
    /\ AuthOff
    /\ QueryOff
    /\ HistoryOff
    /\ EmbedOff
    /\ RetrieveOff
    /\ GenerateOff
    /\ PoolOff
    /\ RetryOff
    /\ ImagesOff
    /\ SplitOff
    /\ FuseOff
    /\ PagesOff
    /\ y_actor = "none"
    /\ y_pc = [s \in SessionIds |-> "idle"]
    /\ y_calls = [s \in SessionIds |-> 0]
    /\ y_frame = [s \in SessionIds |-> NoCall]
    /\ y_dir = [s \in SessionIds |-> NoDir]
    /\ y_processed = [s \in SessionIds |-> <<>>]
    /\ y_index = [s \in SessionIds |-> {}]
    /\ y_history = [s \in SessionIds |-> 0]

\* process_docs(session_id, [file]) is entered: lines 174-179
SessionEnter(s, name) ==
    /\ y_pc[s] = "idle"
    /\ y_calls[s] < MaxSessionCalls
    /\ y_calls' = [y_calls EXCEPT ![s] = @ + 1]
    /\ y_frame' = [y_frame EXCEPT ![s] = [NoCall EXCEPT !.name = name]]
    /\ y_dir' = [y_dir EXCEPT ![s].exists = TRUE]
    /\ y_pc' = [y_pc EXCEPT ![s] = "staging"]
    /\ y_actor' = s
    /\ UNCHANGED <<y_processed, y_index, y_history>>
    /\ UNCHANGED notSessions

\* lines 183-193: the file is written to its staging path; open() raises when
\* the directory of the path does not exist
SessionStage(s) ==
    /\ y_pc[s] = "staging"
    /\ LET target == staging_target(s, y_frame[s].name)
       IN  IF y_dir[target].exists
           THEN /\ y_dir' = [y_dir EXCEPT ![target].bytes = s]
                /\ y_frame' = [y_frame EXCEPT ![s].temp_files = {target}]
                /\ y_pc' = [y_pc EXCEPT ![s] = "loading"]
           ELSE /\ y_pc' = [y_pc EXCEPT ![s] = "finally"]
                /\ UNCHANGED <<y_dir, y_frame>>
    /\ y_actor' = s
    /\ UNCHANGED <<y_calls, y_processed, y_index, y_history>>
    /\ UNCHANGED notSessions

\* lines 195-202: the loader reads the staged path; a missing file gives no
\* documents, and the call returns
SessionLoad(s) ==
    /\ y_pc[s] = "loading"
    /\ LET read == {y_dir[t].bytes : t \in {t \in y_frame[s].temp_files : y_dir[t].exists}}
                      \ {"none"}
       IN  /\ y_frame' = [y_frame EXCEPT ![s].all_docs = read]
           /\ y_pc' = [y_pc EXCEPT ![s] = IF read = {} THEN "finally" ELSE "commit"]
    /\ y_actor' = s
    /\ UNCHANGED <<y_calls, y_dir, y_processed, y_index, y_history>>
    /\ UNCHANGED notSessions

\* lines 213-228
SessionCommit(s) ==
    /\ y_pc[s] = "commit"
    /\ y_index' = [y_index EXCEPT ![s] = @ \cup y_frame[s].all_docs]
    /\ y_processed' = [y_processed EXCEPT ![s] = Append(@, y_frame[s].name)]
    /\ y_pc' = [y_pc EXCEPT ![s] = "finally"]
    /\ y_actor' = s
    /\ UNCHANGED <<y_calls, y_frame, y_dir, y_history>>
    /\ UNCHANGED notSessions

\* lines 240-246: shutil.rmtree(f'data/{session_id}')
SessionFinally(s) ==
    /\ y_pc[s] = "finally"
    /\ y_dir' = [y_dir EXCEPT ![s] = NoDir]
    /\ y_frame' = [y_frame EXCEPT ![s] = NoCall]
    /\ y_pc' = [y_pc EXCEPT ![s] = "idle"]
    /\ y_actor' = s
    /\ UNCHANGED <<y_calls, y_processed, y_index, y_history>>
    /\ UNCHANGED notSessions

\* RAGChatbot.chat of the session's chatbot appends the turn to its own
\* conversation_history: chat.py lines 241-266
SessionChat(s) ==
    /\ y_pc[s] = "idle"
    /\ y_index[s] # {}
    /\ y_history[s] < MaxTurns
    /\ y_history' = [y_history EXCEPT ![s] = @ + 1]
    /\ y_actor' = s
    /\ UNCHANGED <<y_pc, y_calls, y_frame, y_dir, y_processed, y_index>>
    /\ UNCHANGED notSessions

NextSessions ==
    \/ \E s \in SessionIds, name \in UploadNames : SessionEnter(s, name)
    \/ \E s \in SessionIds : SessionStage(s)
    \/ \E s \in SessionIds : SessionLoad(s)
    \/ \E s \in SessionIds : SessionCommit(s)
    \/ \E s \in SessionIds : SessionFinally(s)
    \/ \E s \in SessionIds : SessionChat(s)

SpecSessions == InitSessions /\ [][NextSessions]_vars

UserMessages == {"what is a", "explain b"}

HitCounts == {0, 2}

IngestedFile == [stem |-> "a", ext |-> "pdf"]

InitHistory ==
    /\ processed = <<IngestedFile>>
    /\ db = 1
    /\ store = [i \in 1..MaxCalls |->
                   IF i = 1 THEN {Doc(IngestedFile, p, "text") : p \in 1..2} ELSE {}]
    /\ msg = "none"
    /\ dirExists = FALSE
    /\ staged = {}
    /\ pc = "idle"
    /\ pd = NoFrame
    /\ ncalls = 1
    /\ chatbot = NoChatbot
    /\ chat_ret = NoChat
    /\ EmbedOff
    /\ RetrieveOff
    /\ GenerateOff
    /\ PoolOff
    /\ RetryOff
    /\ ImagesOff
    /\ SplitOff
    /\ FuseOff
    /\ PagesOff
    /\ SessionsOff
    /\ QueryOff
    /\ AuthOff
    /\ h_op = "none"
    /\ h_bot = RAGChatbot(db)
    /\ h_old = <<>>
    /\ h_msg = "none"
    /\ h_ret = NoChat
    /\ h_calls = 0

\* chatbot.chat(user_message.strip()): chat.py lines 241-266, called at 418-419
HistoryChat(user_message, hits, searchOk, gen) ==
    /\ h_calls < MaxChatCalls
    /\ LET r == chat(h_bot, user_message, hits, searchOk, TRUE, gen)
       IN  /\ h_bot' = r.bot
           /\ h_ret' = r.ret
    /\ h_old' = h_bot.conversation_history
    /\ h_msg' = user_message
    /\ h_op' = "chat"
    /\ h_calls' = h_calls + 1
    /\ UNCHANGED notHistory

\* the Clear Chat History button: chat.py lines 372-379
HistoryClear ==
    /\ h_op = "chat"
    /\ h_bot' = [h_bot EXCEPT !.conversation_history = <<>>]
    /\ h_old' = h_bot.conversation_history
    /\ h_op' = "clear"
    /\ UNCHANGED <<h_msg, h_ret, h_calls>>
    /\ UNCHANGED notHistory

NextHistory ==
    \/ \E user_message \in UserMessages, hits \in HitCounts,
          searchOk \in BOOLEAN, gen \in GenOutcomes :
          HistoryChat(user_message, hits, searchOk, gen)
    \/ HistoryClear

SpecHistory == InitHistory /\ [][NextHistory]_vars

\* C31: a chat call leaves the earlier turns as they were and in their order,
\* appends exactly one turn holding the question and the answer returned,
\* error string or not, and returns the new number of turns
C31_AppendOnlyHistory ==
    h_op = "chat" =>
        LET history == h_bot.conversation_history
        IN  /\ Len(history) = Len(h_old) + 1
            /\ SubSeq(history, 1, Len(h_old)) = h_old
            /\ history[Len(history)].user = h_msg
            /\ history[Len(history)].bot = h_ret.response
            /\ h_ret.conversation_length = Len(history)

\* the third of three calls, its answer an error string, after an answered one
C31_Witness ==
    /\ h_op = "chat"
    /\ Len(h_bot.conversation_history) = 3
    /\ h_ret.response = generate_response(ReplyOf("timeout"))
    /\ h_old[1].bot = generate_response(ReplyOf("ok"))
    /\ h_old[1].context_used > 0
    /\ h_old[1].user # h_old[2].user

(***************************************************************************)
(* enhance_query as a function of the question (SpecQuery)                 *)
(***************************************************************************)
InitQuery ==
    /\ InitSession
    /\ AuthOff
    /\ EmbedOff
    /\ RetrieveOff
    /\ GenerateOff
    /\ PoolOff
    /\ RetryOff
    /\ ImagesOff
    /\ SplitOff
    /\ FuseOff
    /\ PagesOff
    /\ SessionsOff
    /\ HistoryOff
    /\ q_pc = "call"
    /\ q_query \in Queries
    /\ q_ret = <<>>

EnhanceQuery ==
    /\ q_pc = "call"
    /\ q_ret' = enhance_query(q_query)
    /\ q_pc' = "returned"
    /\ UNCHANGED q_query
    /\ UNCHANGED notQuery

NextQuery == EnhanceQuery

SpecQuery == InitQuery /\ [][NextQuery]_vars

\* the question begins with a question word, in any case
BeginsWithQuestionWord(q) == q[1] \in {"what", "How"}

\* the number of words of the question
WordCount(q) ==
    Cardinality({i \in DOMAIN q : q[i] # " " /\ (i = 1 \/ q[i - 1] = " ")})

\* the question contains 'explain' or 'describe', in any case
NamesTopic(q) == \E i \in DOMAIN q : q[i] \in {"explain", "Describe"}

\* C32: enhance_query returns one to three variants, the first the unchanged
\* question; one more exactly when the question begins with a question word
\* (in any case) and has further words, and one more exactly when it contains
\* 'explain' or 'describe' (in any case)
C32_QueryExpansion ==
    q_pc = "returned" =>
        LET stripped == BeginsWithQuestionWord(q_query) /\ WordCount(q_query) > 1
            topic == NamesTopic(q_query)
        IN  /\ Len(q_ret) \in 1..3
            /\ q_ret[1] = q_query
            /\ Len(q_ret) = 1 + (IF stripped THEN 1 ELSE 0) + (IF topic THEN 1 ELSE 0)
            /\ stripped => /\ WordCount(q_ret[2]) = WordCount(q_query) - 1
                           /\ q_ret[2][1] # " "
            /\ topic => ~NamesTopic(q_ret[Len(q_ret)])

\* "How xexplain": all three variants
C32_Witness ==
    /\ q_pc = "returned"
    /\ q_query = <<"How", " ", "x", "explain">>
    /\ q_ret = <<q_query, <<"x", "explain">>, <<"how", " ", "x">>>>

(***************************************************************************)
(* AuthManager (SpecOtp, SpecLogin).  The database is its three tables.    *)
(* An email is stored lower-cased; a password hash is the password and the *)
(* salt it was hashed with.  The text of an OTP is its six digits, with or *)
(* without the prefix RESET_.  Times are minutes of one clock.  A method   *)
(* other than login_user is one step: it waits for the write lock.         *)
(***************************************************************************)
EmailInputs == {"u@x.com", "U@x.com", "v@x.com"}

\* email.lower()
email_lower(email) == IF email = "U@x.com" THEN "u@x.com" ELSE email

LowerEmails == {email_lower(e) : e \in EmailInputs}

\* _validate_email: the pattern asks for an @
validate_email(email) == email # "u.x.com"

PasswordInputs == {"Passw0rd1", "Passw0rd2", "weak"}

RegisterPasswords == {"Passw0rd1", "weak"}

ResetPasswords == {"Passw0rd2", "weak"}

\* _validate_password: length, upper case, lower case, digit
validate_password(password) == password # "weak"

\* _hash_password: sha256 of password + salt
hash_password(password, salt) == <<"sha256", password, salt>>

Digits == {"111111", "222222"}

\* _generate_otp: six random digits; here the OTP of a row differs from the
\* OTP of the row made before it
generate_otp(id) == IF id % 2 = 1 THEN "111111" ELSE "222222"

OtpTexts == [reset : BOOLEAN, digits : Digits]

NoUser == [id |-> 0, password_hash |-> <<>>, salt |-> "none"]

NoRow ==
    [id |-> 0, email |-> "none", otp_code |-> [reset |-> FALSE, digits |-> "none"],
     created_at |-> 0, expires_at |-> 0, is_used |-> FALSE, attempts |-> 0]

\* user_exists
user_exists(users, email) == users[email_lower(email)].id # 0

\* ORDER BY created_at DESC LIMIT 1
latest(rows) ==
    IF rows = {} THEN NoRow
    ELSE CHOOSE r \in rows : \A o \in rows : <<o.created_at, o.id>> = <<r.created_at, r.id>>
                                             \/ o.created_at < r.created_at
                                             \/ (o.created_at = r.created_at /\ o.id < r.id)

\* generate_and_send_otp: the table after it, whether it wrote, what it returns
generate_and_send_otp(users, otps, email, otp, id, now, sent) ==
    IF ~validate_email(email) \/ user_exists(users, email)
    THEN [ok |-> FALSE, wrote |-> FALSE, otps |-> otps]
    ELSE [ok |-> sent, wrote |-> TRUE,
          otps |-> {r \in otps : r.email # email_lower(email)}
                     \cup {[id |-> id, email |-> email_lower(email),
                            otp_code |-> [reset |-> FALSE, digits |-> otp],
                            created_at |-> now, expires_at |-> now + OtpMinutes,
                            is_used |-> FALSE, attempts |-> 0]}]

\* mutant of verify_row: a fourth attempt is let through
verify_row_fourth_attempt(otps, row, matches, now) ==
    IF row = NoRow THEN [ok |-> FALSE, otps |-> otps, row |-> row]
    ELSE IF now > row.expires_at THEN [ok |-> FALSE, otps |-> otps, row |-> row]
    ELSE IF row.attempts > MaxOtpAttempts THEN [ok |-> FALSE, otps |-> otps, row |-> row]
    ELSE IF matches
    THEN [ok |-> TRUE, row |-> row,
          otps |-> (otps \ {row}) \cup {[row EXCEPT !.is_used = TRUE]}]
    ELSE [ok |-> FALSE, row |-> row,
          otps |-> (otps \ {row}) \cup {[row EXCEPT !.attempts = @ + 1]}]

\* the checks and updates verify_otp and verify_password_reset_otp share,
\* given the row selected and whether the submitted text matches
verify_row(otps, row, matches, now) ==
    IF row = NoRow THEN [ok |-> FALSE, otps |-> otps, row |-> row]
    ELSE IF now > row.expires_at THEN [ok |-> FALSE, otps |-> otps, row |-> row]
    ELSE IF row.attempts >= MaxOtpAttempts THEN [ok |-> FALSE, otps |-> otps, row |-> row]
    ELSE IF matches
    THEN [ok |-> TRUE, row |-> row,
          otps |-> (otps \ {row}) \cup {[row EXCEPT !.is_used = TRUE]}]
    ELSE [ok |-> FALSE, row |-> row,
          otps |-> (otps \ {row}) \cup {[row EXCEPT !.attempts = @ + 1]}]

\* mutant of verify_otp: a verified OTP is not marked as used
verify_otp_not_marked(otps, email, otp, now) ==
    LET row == latest({r \in otps : r.email = email_lower(email) /\ ~r.is_used})
        r == verify_row(otps, row, otp = row.otp_code, now)
    IN  IF r.ok THEN [r EXCEPT !.otps = otps] ELSE r

\* verify_otp
verify_otp(otps, email, otp, now) ==
    LET row == latest({r \in otps : r.email = email_lower(email) /\ ~r.is_used})
    IN  verify_row(otps, row, otp = row.otp_code, now)

\* verify_password_reset_otp
verify_password_reset_otp(otps, email, otp, now) ==
    LET row == latest({r \in otps : /\ r.email = email_lower(email)
                                    /\ r.otp_code.reset
                                    /\ ~r.is_used})
        stored_otp_clean == [reset |-> FALSE, digits |-> row.otp_code.digits]
    IN  verify_row(otps, row, otp = stored_otp_clean, now)

\* mutant of register_user: the email's verification is not looked up
register_user_unverified(users, otps, email, password) ==
    IF ~validate_email(email) \/ ~validate_password(password) \/ user_exists(users, email)
    THEN [ok |-> FALSE, users |-> users]
    ELSE [ok |-> TRUE,
          users |-> [users EXCEPT ![email_lower(email)] =
                        [id |-> Cardinality({e \in LowerEmails : users[e].id # 0}) + 1,
                         password_hash |-> hash_password(password, "salt"),
                         salt |-> "salt"]]]

\* register_user
register_user(users, otps, email, password) ==
    IF ~validate_email(email) \/ ~validate_password(password) \/ user_exists(users, email)
    THEN [ok |-> FALSE, users |-> users]
    ELSE IF {r \in otps : r.email = email_lower(email) /\ r.is_used} = {}
    THEN [ok |-> FALSE, users |-> users]
    ELSE [ok |-> TRUE,
          users |-> [users EXCEPT ![email_lower(email)] =
                        [id |-> Cardinality({e \in LowerEmails : users[e].id # 0}) + 1,
                         password_hash |-> hash_password(password, "salt"),
                         salt |-> "salt"]]]

\* generate_password_reset_otp
generate_password_reset_otp(users, otps, email, otp, id, now, sent) ==
    IF ~validate_email(email) \/ ~user_exists(users, email)
    THEN [ok |-> FALSE, wrote |-> FALSE, otps |-> otps]
    ELSE [ok |-> sent, wrote |-> TRUE,
          otps |-> {r \in otps : ~(r.email = email_lower(email) /\ r.otp_code.reset)}
                     \cup {[id |-> id, email |-> email_lower(email),
                            otp_code |-> [reset |-> TRUE, digits |-> otp],
                            created_at |-> now, expires_at |-> now + ResetOtpMinutes,
                            is_used |-> FALSE, attempts |-> 0]}]

\* reset_password
reset_password(users, otps, sessions, email, new_password, now) ==
    IF \/ ~validate_email(email)
       \/ ~validate_password(new_password)
       \/ ~user_exists(users, email)
       \/ {r \in otps : /\ r.email = email_lower(email)
                        /\ r.otp_code.reset
                        /\ r.is_used
                        /\ r.created_at > now - ResetWindowMinutes} = {}
    THEN [ok |-> FALSE, users |-> users, otps |-> otps, sessions |-> sessions]
    ELSE [ok |-> TRUE,
          users |-> [users EXCEPT ![email_lower(email)].password_hash =
                                      hash_password(new_password, "salt")],
          sessions |-> {IF s.user_id = users[email_lower(email)].id
                        THEN [s EXCEPT !.is_active = FALSE] ELSE s : s \in sessions},
          otps |-> {r \in otps : ~(r.email = email_lower(email) /\ r.otp_code.reset)}]

\* the session tokens that an operation deactivated: the rows that were active
\* before it and are not active after it
Deactivated(before, after, by) ==
    {[token |-> x.session_token, by |-> by] :
        x \in {y \in before : y.is_active /\ [y EXCEPT !.is_active = FALSE] \in after}}

NoAuthCall ==
    [op |-> "none", email |-> "none", ok |-> FALSE, row |-> 0, age |-> 0,
     wrong_before |-> 0, authorised |-> FALSE, token |-> "none"]

\* what a call returned: its success, and on success the email it was for
Returns(op, email, ok) ==
    IF ok THEN [NoAuthCall EXCEPT !.op = op, !.email = email_lower(email), !.ok = TRUE]
    ELSE [NoAuthCall EXCEPT !.op = "failed"]

\* what a verification returned: as Returns, and when the digits submitted
\* were those of the row selected, the row, its age and the wrong codes
\* submitted for it before
Verified(op, email, r, otp, wrong, now) ==
    IF r.row # NoRow /\ otp.digits = r.row.otp_code.digits
    THEN [NoAuthCall EXCEPT !.op = op, !.email = email_lower(email), !.ok = r.ok,
                            !.row = r.row.id, !.age = now - r.row.created_at,
                            !.wrong_before = wrong[r.row.id]]
    ELSE Returns(op, email, r.ok)

\* the verification counted for the claims: wrong codes and successes per row
Counted(wrong, row, otp) ==
    IF row # NoRow /\ otp.digits # row.otp_code.digits
    THEN [wrong EXCEPT ![row.id] = IF @ < 3 THEN @ + 1 ELSE @]
    ELSE wrong

Succeeded(success, r) ==
    IF r.ok THEN [success EXCEPT ![r.row.id] = IF @ < 2 THEN @ + 1 ELSE @] ELSE success

InitAuthTables ==
    /\ a_now = 0
    /\ a_otps = {}
    /\ a_sessions = {}
    /\ a_lock = "none"
    /\ a_last = NoAuthCall
    /\ a_made = [otps |-> 0, tokens |-> 0, logins |-> 0]
    /\ a_verified = {}
    /\ a_authorised = {}
    /\ a_wrong = <<>>
    /\ a_success = <<>>
    /\ a_deactivated = {}

InitOtp ==
    /\ InitSession
    /\ EmbedOff
    /\ RetrieveOff
    /\ GenerateOff
    /\ PoolOff
    /\ RetryOff
    /\ ImagesOff
    /\ SplitOff
    /\ FuseOff
    /\ PagesOff
    /\ SessionsOff
    /\ HistoryOff
    /\ QueryOff
    /\ InitAuthTables
    /\ a_users = [e \in LowerEmails |-> NoUser]
    /\ a_login = <<>>

Tick(d) ==
    /\ a_now + d <= MaxNow
    /\ a_now' = a_now + d
    /\ UNCHANGED <<a_users, a_otps, a_sessions, a_lock, a_login, a_last, a_made,
                   a_verified, a_authorised, a_wrong, a_success, a_deactivated>>
    /\ UNCHANGED notAuth

GenerateAndSendOtp(email, sent) ==
    /\ a_lock = "none"
    /\ a_made.otps < MaxOtps
    /\ LET r == generate_and_send_otp(a_users, a_otps, email,
                                      generate_otp(a_made.otps + 1), a_made.otps + 1,
                                      a_now, sent)
       IN  /\ a_otps' = r.otps
           /\ a_last' = Returns("generate_and_send_otp", email, r.ok)
           /\ a_verified' = IF r.wrote THEN a_verified \ {email_lower(email)}
                            ELSE a_verified
           /\ IF r.wrote
              THEN /\ a_made' = [a_made EXCEPT !.otps = @ + 1]
                   /\ a_wrong' = Append(a_wrong, 0)
                   /\ a_success' = Append(a_success, 0)
              ELSE UNCHANGED <<a_made, a_wrong, a_success>>
    /\ UNCHANGED <<a_now, a_users, a_sessions, a_lock, a_login, a_authorised,
                   a_deactivated>>
    /\ UNCHANGED notAuth

VerifyOtp(email, otp) ==
    /\ a_lock = "none"
    /\ LET r == verify_otp(a_otps, email, otp, a_now)
       IN  /\ a_otps' = r.otps
           /\ a_last' = Verified("verify_otp", email, r, otp, a_wrong, a_now)
           /\ a_wrong' = Counted(a_wrong, r.row, otp)
           /\ a_success' = Succeeded(a_success, r)
           /\ a_verified' = IF r.ok THEN a_verified \cup {email_lower(email)}
                            ELSE a_verified
    /\ UNCHANGED <<a_now, a_users, a_sessions, a_lock, a_login, a_made, a_authorised,
                   a_deactivated>>
    /\ UNCHANGED notAuth

RegisterUser(email, password) ==
    /\ a_lock = "none"
    /\ LET r == register_user(a_users, a_otps, email, password)
       IN  /\ a_users' = r.users
           /\ a_last' = Returns("register_user", email, r.ok)
    /\ UNCHANGED <<a_now, a_otps, a_sessions, a_lock, a_login, a_made, a_verified,
                   a_authorised, a_wrong, a_success, a_deactivated>>
    /\ UNCHANGED notAuth

GeneratePasswordResetOtp(email, sent) ==
    /\ a_lock = "none"
    /\ a_made.otps < MaxOtps
    /\ LET r == generate_password_reset_otp(a_users, a_otps, email,
                                            generate_otp(a_made.otps + 1),
                                            a_made.otps + 1, a_now, sent)
       IN  /\ a_otps' = r.otps
           /\ a_last' = Returns("generate_password_reset_otp", email, r.ok)
           /\ IF r.wrote
              THEN /\ a_made' = [a_made EXCEPT !.otps = @ + 1]
                   /\ a_wrong' = Append(a_wrong, 0)
                   /\ a_success' = Append(a_success, 0)
              ELSE UNCHANGED <<a_made, a_wrong, a_success>>
    /\ UNCHANGED <<a_now, a_users, a_sessions, a_lock, a_login, a_verified,
                   a_authorised, a_deactivated>>
    /\ UNCHANGED notAuth

VerifyPasswordResetOtp(email, otp) ==
    /\ a_lock = "none"
    /\ LET r == verify_password_reset_otp(a_otps, email, otp, a_now)
       IN  /\ a_otps' = r.otps
           /\ a_last' = Verified("verify_password_reset_otp", email, r, otp, a_wrong,
                                  a_now)
           /\ a_wrong' = Counted(a_wrong, r.row, otp)
           /\ a_success' = Succeeded(a_success, r)
           /\ a_authorised' = IF r.ok THEN a_authorised \cup {email_lower(email)}
                              ELSE a_authorised
    /\ UNCHANGED <<a_now, a_users, a_sessions, a_lock, a_login, a_made, a_verified,
                   a_deactivated>>
    /\ UNCHANGED notAuth

ResetPassword(email, new_password) ==
    /\ a_lock = "none"
    /\ LET r == reset_password(a_users, a_otps, a_sessions, email, new_password, a_now)
       IN  /\ a_users' = r.users
           /\ a_otps' = r.otps
           /\ a_sessions' = r.sessions
           /\ a_last' = IF r.ok
                        THEN [Returns("reset_password", email, TRUE) EXCEPT
                                 !.authorised = email_lower(email) \in a_authorised]
                        ELSE Returns("reset_password", email, FALSE)
           /\ a_authorised' = IF r.ok THEN a_authorised \ {email_lower(email)}
                              ELSE a_authorised
           /\ a_deactivated' =
                  a_deactivated \cup Deactivated(a_sessions, r.sessions, "reset_password")
    /\ UNCHANGED <<a_now, a_lock, a_login, a_made, a_verified, a_wrong, a_success>>
    /\ UNCHANGED notAuth

TickSteps == {15}

NextOtp ==
    \/ \E d \in TickSteps : Tick(d)
    \/ \E email \in EmailInputs, sent \in BOOLEAN : GenerateAndSendOtp(email, sent)
    \/ \E email \in EmailInputs, otp \in OtpTexts : VerifyOtp(email, otp)
    \/ \E email \in EmailInputs, password \in RegisterPasswords :
          RegisterUser(email, password)
    \/ \E email \in EmailInputs, sent \in BOOLEAN :
          GeneratePasswordResetOtp(email, sent)
    \/ \E email \in EmailInputs, otp \in OtpTexts : VerifyPasswordResetOtp(email, otp)
    \/ \E email \in EmailInputs, new_password \in ResetPasswords :
          ResetPassword(email, new_password)

SpecOtp == InitOtp /\ [][NextOtp]_vars

Verifications == {"verify_otp", "verify_password_reset_otp"}

\* C34: register_user succeeds for an email only if a verify_otp call for
\* that email succeeded before and no generate_and_send_otp for the email
\* has removed that verification since
C34_RegistrationRequiresVerifiedEmail ==
    (a_last.op = "register_user" /\ a_last.ok) => a_last.email \in a_verified

\* u is registered on its second OTP, the first having been replaced
C34_Witness ==
    /\ a_last.op = "register_user"
    /\ a_last.ok
    /\ a_last.email = "u@x.com"
    /\ a_made.otps = 2
    /\ a_users["v@x.com"] = NoUser
    /\ \A r \in a_otps : r.email = "u@x.com" /\ r.id = 2

\* C35: a verification of an OTP for which three wrong codes have been
\* submitted fails, also with the right code
C35_OtpAttemptLimit ==
    (a_last.op \in Verifications /\ a_last.ok) => a_last.wrong_before < 3

\* the right code is refused, in time, after three wrong ones
C35_Witness ==
    /\ a_last.op \in Verifications
    /\ ~a_last.ok
    /\ a_last.wrong_before = 3
    /\ \E r \in a_otps : r.id = a_last.row /\ ~r.is_used /\ a_now <= r.expires_at

\* C36: no OTP is verified successfully twice, and none later than 10
\* minutes (registration) or 15 minutes (password reset) after it was made
C36_OtpSingleUseAndExpiry ==
    /\ \A id \in DOMAIN a_success : a_success[id] <= 1
    /\ (a_last.op \in Verifications /\ a_last.ok) =>
           a_last.age <= (IF \E r \in a_otps : r.id = a_last.row /\ r.otp_code.reset
                          THEN 15 ELSE 10)

\* one OTP was verified once; the right code of another, a registration OTP
\* made 15 minutes ago, is refused
C36_Witness ==
    /\ a_last.op = "verify_otp"
    /\ ~a_last.ok
    /\ a_last.age = 15
    /\ a_last.wrong_before = 0
    /\ \E r \in a_otps : r.id = a_last.row /\ ~r.otp_code.reset /\ ~r.is_used
    /\ \E r \in a_otps : r.id # a_last.row /\ r.is_used /\ a_success[r.id] = 1

\* C37: reset_password succeeds only after a verify_password_reset_otp call
\* for that email has succeeded, and one such verification authorises one
\* successful reset_password call
C37_ResetAuthorisedOnce ==
    (a_last.op = "reset_password" /\ a_last.ok) => a_last.authorised


(***************************************************************************)
(* SpecLogin: login_user, _create_session, validate_session, logout_user   *)
(* and the password reset, on a database that holds two registered users.  *)
(* SQLite lets one connection write at a time.  A connection takes the     *)
(* write lock at its first UPDATE, INSERT or DELETE and holds it until it  *)
(* commits; another connection that wants to write waits up to the busy    *)
(* timeout and then raises sqlite3.OperationalError "database is locked".  *)
(* login_user is modelled statement by statement, because it calls         *)
(* _create_session, which opens a second connection, between its UPDATE    *)
(* and its commit.  Every other method writes and commits on one           *)
(* connection and is one step.                                             *)
(***************************************************************************)
Clients == {"c1", "c2"}

LoginEmails == {"U@x.com", "v@x.com"}

LoginPasswords == {"Passw0rd1", "Passw0rd2"}

NoLogin == [pc |-> "idle", user_id |-> 0, email |-> "none", session_token |-> "none"]

TokenNames == <<"t1", "t2", "t3", "t4", "t5", "t6">>

\* secrets.token_urlsafe(32): a token never issued before; None is "none"
token_urlsafe(n) == TokenNames[n]

\* login_user up to the password check: the id of the user, 0 when login fails
login_check(users, email, password) ==
    IF email_lower(email) \notin DOMAIN users THEN 0
    ELSE LET user_data == users[email_lower(email)]
         IN  IF user_data.id = 0 THEN 0
             ELSE IF hash_password(password, user_data.salt) # user_data.password_hash
             THEN 0
             ELSE user_data.id

\* mutant of create_session: the older sessions of the user stay active
create_session_keep_old(sessions, lock, user_id, session_token, now) ==
    IF lock # "none"
    THEN [session_token |-> "none", sessions |-> sessions]
    ELSE [session_token |-> session_token,
          sessions |-> sessions \cup {[user_id |-> user_id,
                                       session_token |-> session_token,
                                       expires_at |-> now + SessionMinutes,
                                       is_active |-> TRUE]}]

\* _create_session: on a connection of its own, deactivate the user's active
\* sessions and insert the new row; None on sqlite3.Error, which is what the
\* UPDATE raises when another connection holds the write lock
create_session(sessions, lock, user_id, session_token, now) ==
    IF lock # "none"
    THEN [session_token |-> "none", sessions |-> sessions]
    ELSE [session_token |-> session_token,
          sessions |-> {IF s.user_id = user_id /\ s.is_active
                        THEN [s EXCEPT !.is_active = FALSE] ELSE s : s \in sessions}
                       \cup {[user_id |-> user_id,
                              session_token |-> session_token,
                              expires_at |-> now + SessionMinutes,
                              is_active |-> TRUE]}]

\* mutant of validate_session: is_active is not asked for
validate_session_any_row(users, sessions, session_token, now) ==
    LET session_data == {s \in sessions : /\ s.session_token = session_token
                                          /\ s.expires_at > now
                                          /\ \E e \in DOMAIN users : users[e].id = s.user_id}
    IN  session_data # {}

\* validate_session: a row of the token that is active and not expired, joined
\* with its user
validate_session(users, sessions, session_token, now) ==
    LET session_data == {s \in sessions : /\ s.session_token = session_token
                                          /\ s.is_active
                                          /\ s.expires_at > now
                                          /\ \E e \in DOMAIN users : users[e].id = s.user_id}
    IN  session_data # {}

\* logout_user: deactivate the rows of the token; False on sqlite3.Error
logout_user(sessions, lock, session_token) ==
    IF lock # "none"
    THEN [ok |-> FALSE, sessions |-> sessions]
    ELSE [ok |-> TRUE,
          sessions |-> {IF s.session_token = session_token
                        THEN [s EXCEPT !.is_active = FALSE] ELSE s : s \in sessions}]

\* a database of users that registered earlier: two users, no OTP rows, no
\* sessions
InitLogin ==
    /\ InitSession
    /\ EmbedOff
    /\ RetrieveOff
    /\ GenerateOff
    /\ PoolOff
    /\ RetryOff
    /\ ImagesOff
    /\ SplitOff
    /\ FuseOff
    /\ PagesOff
    /\ SessionsOff
    /\ HistoryOff
    /\ QueryOff
    /\ InitAuthTables
    /\ a_users = [e \in LowerEmails |->
                     [id |-> IF e = "u@x.com" THEN 1 ELSE 2,
                      password_hash |-> hash_password("Passw0rd1", "salt"),
                      salt |-> "salt"]]
    /\ a_login = [c \in Clients |-> NoLogin]

\* login_user, SELECT and the checks before the UPDATE
LoginSelect(c, email, password) ==
    /\ a_login[c].pc = "idle"
    /\ a_made.logins < MaxLogins
    /\ a_made' = [a_made EXCEPT !.logins = @ + 1]
    /\ LET user_id == login_check(a_users, email, password)
       IN  IF user_id = 0
           THEN /\ a_last' = Returns("login_user", email, FALSE)
                /\ UNCHANGED a_login
           ELSE /\ a_login' = [a_login EXCEPT ![c] =
                                  [pc |-> "update", user_id |-> user_id,
                                   email |-> email_lower(email),
                                   session_token |-> "none"]]
                /\ UNCHANGED a_last
    /\ UNCHANGED <<a_now, a_users, a_otps, a_sessions, a_lock, a_verified, a_authorised,
                   a_wrong, a_success, a_deactivated>>
    /\ UNCHANGED notAuth

\* login_user, UPDATE users SET last_login: the connection takes the write
\* lock, or finds it taken for longer than the busy timeout and login_user
\* returns the database error
LoginUpdate(c) ==
    /\ a_login[c].pc = "update"
    /\ IF a_lock = "none"
       THEN /\ a_lock' = c
            /\ a_login' = [a_login EXCEPT ![c].pc = "create"]
            /\ UNCHANGED a_last
       ELSE /\ a_login' = [a_login EXCEPT ![c] = NoLogin]
            /\ a_last' = Returns("login_user", a_login[c].email, FALSE)
            /\ UNCHANGED a_lock
    /\ UNCHANGED <<a_now, a_users, a_otps, a_sessions, a_made, a_verified, a_authorised,
                   a_wrong, a_success, a_deactivated>>
    /\ UNCHANGED notAuth

\* login_user, session_token = self._create_session(user_id), called while
\* the connection of login_user holds the write lock
LoginCreateSession(c) ==
    /\ a_login[c].pc = "create"
    /\ a_lock # "none" \/ a_made.tokens < MaxTokens
    /\ LET r == create_session(a_sessions, a_lock, a_login[c].user_id,
                               token_urlsafe(a_made.tokens + 1), a_now)
       IN  /\ a_sessions' = r.sessions
           /\ a_login' = [a_login EXCEPT ![c].pc = "commit",
                                         ![c].session_token = r.session_token]
           /\ a_made' = [a_made EXCEPT !.tokens = IF r.session_token = "none"
                                                   THEN @ ELSE @ + 1]
           /\ a_deactivated' =
                  a_deactivated \cup Deactivated(a_sessions, r.sessions, "login_user")
    /\ UNCHANGED <<a_now, a_users, a_otps, a_lock, a_last, a_verified, a_authorised,
                   a_wrong, a_success>>
    /\ UNCHANGED notAuth

\* login_user, conn.commit() and the return of the user's data
LoginCommit(c) ==
    /\ a_login[c].pc = "commit"
    /\ a_lock' = "none"
    /\ a_last' = [Returns("login_user", a_login[c].email, TRUE) EXCEPT
                     !.token = a_login[c].session_token]
    /\ a_login' = [a_login EXCEPT ![c] = NoLogin]
    /\ UNCHANGED <<a_now, a_users, a_otps, a_sessions, a_made, a_verified, a_authorised,
                   a_wrong, a_success, a_deactivated>>
    /\ UNCHANGED notAuth

\* _create_session called with no login_user around it
CreateSession(user_id) ==
    /\ a_lock # "none" \/ a_made.tokens < MaxTokens
    /\ LET r == create_session(a_sessions, a_lock, user_id,
                               token_urlsafe(a_made.tokens + 1), a_now)
       IN  /\ a_sessions' = r.sessions
           /\ a_made' = [a_made EXCEPT !.tokens = IF r.session_token = "none"
                                                   THEN @ ELSE @ + 1]
           /\ a_last' = NoAuthCall
           /\ a_deactivated' =
                  a_deactivated \cup Deactivated(a_sessions, r.sessions, "_create_session")
    /\ UNCHANGED <<a_now, a_users, a_otps, a_lock, a_login, a_verified, a_authorised,
                   a_wrong, a_success>>
    /\ UNCHANGED notAuth

ValidateSession(session_token) ==
    /\ a_last' = [NoAuthCall EXCEPT
                     !.op = "validate_session",
                     !.ok = validate_session(a_users, a_sessions, session_token, a_now),
                     !.token = session_token]
    /\ UNCHANGED <<a_now, a_users, a_otps, a_sessions, a_lock, a_login, a_made,
                   a_verified, a_authorised, a_wrong, a_success, a_deactivated>>
    /\ UNCHANGED notAuth

LogoutUser(session_token) ==
    /\ LET r == logout_user(a_sessions, a_lock, session_token)
       IN  /\ a_sessions' = r.sessions
           /\ a_last' = NoAuthCall
           /\ a_deactivated' =
                  a_deactivated \cup Deactivated(a_sessions, r.sessions, "logout_user")
    /\ UNCHANGED <<a_now, a_users, a_otps, a_lock, a_login, a_made, a_verified,
                   a_authorised, a_wrong, a_success>>
    /\ UNCHANGED notAuth

\* seven days pass, once the last session was stored and with no login_user
\* call and no password reset under way
SessionTick ==
    /\ a_now < SessionMinutes
    /\ \A c \in Clients : a_login[c].pc = "idle"
    /\ a_otps = {}
    /\ a_made.tokens = MaxTokens
    /\ a_now' = a_now + SessionMinutes
    /\ UNCHANGED <<a_users, a_otps, a_sessions, a_lock, a_login, a_last, a_made,
                   a_verified, a_authorised, a_wrong, a_success, a_deactivated>>
    /\ UNCHANGED notAuth

\* the tokens issued so far, and None
TokensIssued == {token_urlsafe(n) : n \in 1..a_made.tokens} \cup {"none"}

ResetEmails == {"u@x.com"}

NextLogin ==
    \/ \E c \in Clients, email \in LoginEmails, password \in LoginPasswords :
          LoginSelect(c, email, password)
    \/ \E c \in Clients : LoginUpdate(c)
    \/ \E c \in Clients : LoginCreateSession(c)
    \/ \E c \in Clients : LoginCommit(c)
    \/ \E user_id \in 1..2 : CreateSession(user_id)
    \/ \E session_token \in TokensIssued : ValidateSession(session_token)
    \/ \E session_token \in TokensIssued : LogoutUser(session_token)
    \/ SessionTick
    \/ \E email \in ResetEmails :
          a_made.otps < MaxResets /\ GeneratePasswordResetOtp(email, TRUE)
    \/ \E email \in ResetEmails :
          VerifyPasswordResetOtp(email, [reset |-> FALSE,
                                         digits |-> generate_otp(a_made.otps)])
    \/ \E email \in ResetEmails, new_password \in {"Passw0rd2"} :
          ResetPassword(email, new_password)

SpecLogin == InitLogin /\ [][NextLogin]_vars


\* C33: whenever login_user returns success, the session_token it returns is
\* not None and validate_session accepts it
C33_LoginYieldsUsableSession ==
    (a_last.op = "login_user" /\ a_last.ok) =>
        /\ a_last.token # "none"
        /\ validate_session(a_users, a_sessions, a_last.token, a_now)

DeactivatedBy(by) == {d.token : d \in {x \in a_deactivated : x.by = by}}

\* C38: a session token that logout_user, a later _create_session of the same
\* user or reset_password deactivated is not accepted by validate_session in
\* any later state, and no validate_session call that returned accepted one
C38_DeactivationIsPermanent ==
    /\ \A d \in a_deactivated :
          ~validate_session(a_users, a_sessions, d.token, a_now)
    /\ (a_last.op = "validate_session" /\ a_last.ok) =>
          a_last.token \notin {d.token : d \in a_deactivated}

\* validate_session has just refused a token that is not expired and was
\* deactivated by a later session of its user; other tokens were deactivated
\* by logout_user and by reset_password
C38_Witness ==
    /\ a_last.op = "validate_session"
    /\ ~a_last.ok
    /\ a_last.token \in DeactivatedBy("_create_session")
    /\ a_now = 0
    /\ DeactivatedBy("logout_user") # {}
    /\ DeactivatedBy("reset_password") # {}

ActiveSessions(user_id) == {s \in a_sessions : s.user_id = user_id /\ s.is_active}

\* C39: in every state, also between the statements of two login_user calls
\* of one user, each user has at most one session row with is_active = 1
C39_OneActiveSessionPerUser ==
    \A e \in DOMAIN a_users : Cardinality(ActiveSessions(a_users[e].id)) <= 1

\* one login_user call of a user has returned success while another call for
\* the same user is between its UPDATE and its commit; every user has an
\* active session, and that user a deactivated one too
C39_Witness ==
    /\ a_last.op = "login_user"
    /\ a_last.ok
    /\ \E c \in Clients : a_login[c].pc = "commit" /\ a_login[c].email = a_last.email
    /\ \A e \in DOMAIN a_users : Cardinality(ActiveSessions(a_users[e].id)) = 1
    /\ \E s \in a_sessions : s.user_id = a_users[a_last.email].id /\ ~s.is_active

====
